---- MODULE Spec2Model ----
(***************************************************************************)
(* A model of the ReFS image parser (src/src/types/forensic.ts, class      *)
(* RefsParser): the byte buffer and its DataView reads, the superblock     *)
(* locator, the metadata scanner, the record decoder, the B+Tree walker,   *)
(* the synthetic structure generator, the hierarchy builder, the           *)
(* fingerprint stage and the progress notifications of parseImage.         *)
(*                                                                         *)
(* The buffer is a length plus a sparse byte map (bytes not listed are 0). *)
(* Every read is little-endian over those bytes and is bounds-checked the  *)
(* way DataView / Uint8Array check it: a read whose extent leaves the      *)
(* buffer throws a RangeError, which parseImage rethrows.                  *)
(***************************************************************************)
EXTENDS Integers, Sequences, FiniteSets, TLC

VARIABLES
    buffer,      \* this.buffer / this.view: [len, bytes]
    pc,          \* position inside parseImage
    superblock,  \* this.superblock (NoSuperblock before parseSuperblock)
    fileRecords, \* this.fileRecords: an insertion-ordered Map
    scanned,     \* the offsets at which parseMetadataTable read an entry header
    progress,    \* the notifications handed to progressCallback, in order
    stack,       \* the call stack of traverseBTreeNode
    visited,     \* the <<block, depth>> of every node traverseBTreeNode processed
    fileTree,    \* what buildFileTree returned: [roots, items]
    outcome,     \* "pending", "resolved" or "rejected", and the failing stage
    items,         \* ForensicSearchEngine.items: the forest given to the constructor
    searchIndex,   \* ForensicSearchEngine.searchIndex: token -> items
    searchOptions, \* the SearchOptions of the last search() call
    results,       \* what the last search() call returned
    isSearching,   \* SearchDialog: the isSearching state
    timers,        \* SearchDialog: the performSearch calls awaiting their timer,
                   \* oldest first, each as the searchOptions it closed over
    advanced,      \* what getAdvancedSearchResults last returned
    regex,         \* findTextMatches: the RegExp, its lastIndex, the text it is
                   \* run on and the matches pushed so far
    exportItems,   \* ForensicExportEngine.items
    exportOptions, \* the ExportOptions of the last export() call
    exported,      \* how the last export() call ended: an ExportResult or a throw
    clock          \* the day new Date() gives the export engine

parserVars ==
    <<buffer, pc, superblock, fileRecords, scanned, progress, stack, visited, fileTree,
      outcome>>
dialogVars == <<isSearching, timers, advanced>>
searchVars == <<items, searchIndex, searchOptions, results, dialogVars, regex>>
exportVars == <<exportItems, exportOptions, exported, clock>>

vars == <<parserVars, searchVars, exportVars>>

(***************************************************************************)
(* Binary reader                                                           *)
(***************************************************************************)
Byte(b, o) == IF o \in DOMAIN b.bytes THEN b.bytes[o] ELSE 0

\* Little-endian unsigned integer of n bytes at off
RECURSIVE LittleEndian(_, _, _)
LittleEndian(b, off, n) ==
    IF n = 0 THEN 0 ELSE Byte(b, off) + 256 * LittleEndian(b, off + 1, n - 1)

\* DataView throws a RangeError unless the whole extent lies in the buffer
InBounds(b, off, n) == off >= 0 /\ off + n <= b.len

getUint16(b, off) == LittleEndian(b, off, 2)
getUint32(b, off) == LittleEndian(b, off, 4)
getBigUint64(b, off) == LittleEndian(b, off, 8)

\* the n bytes at off, as a sequence of character codes
readString(b, off, n) == [i \in 1..n |-> Byte(b, off + i - 1)]

\* TextDecoder('utf-16le') over n code units, on the alphabet of the images
\* below; "~" stands for U+0000 and "?" for every other code unit
CharOf(u) ==
    CASE u = 97 -> "a"
      [] u = 98 -> "b"
      [] u = 99 -> "c"
      [] u = 47 -> "/"
      [] u = 0 -> "~"
      [] OTHER -> "?"

RECURSIVE readUnicodeString(_, _, _)
readUnicodeString(b, off, n) ==
    IF n = 0 THEN ""
    ELSE CharOf(getUint16(b, off)) \o readUnicodeString(b, off + 2, n - 1)

\* String.prototype.includes on sequences of character codes
Includes(s, pat) ==
    \E i \in 0..(Len(s) - Len(pat)) : SubSeq(s, i + 1, i + Len(pat)) = pat

ReFS == <<82, 101, 70, 83>>
REFS == <<82, 69, 70, 83>>
Mock == <<77, 111, 99, 107>>
\* 'ReFS (Mock)'
MockSignature == <<82, 101, 70, 83, 32, 40, 77, 111, 99, 107, 41>>

(***************************************************************************)
(* Superblock locator                                                      *)
(***************************************************************************)
superblockOffset == 7680

NoSuperblock == [signature |-> <<>>]

createMockSuperblock(b) ==
    [signature |-> MockSignature,
     version |-> 3,
     blockSize |-> 4096,
     sectorsPerBlock |-> 8,
     bytesPerSector |-> 512,
     totalBlocks |-> IF b.len \div 4096 # 0 THEN b.len \div 4096 ELSE 1000,
     rootDirectoryBlock |-> 10,
     metadataTableBlock |-> 20,
     checkpointBlock |-> 30]

parseSuperblock(b) ==
    IF b.len < superblockOffset + 512 THEN createMockSuperblock(b)
    ELSE LET signature == readString(b, superblockOffset, 8)
             hasRefsSignature == Includes(signature, ReFS) \/ Includes(signature, REFS)
         IN  IF ~hasRefsSignature THEN createMockSuperblock(b)
             ELSE [signature |-> signature,
                   version |-> getUint32(b, superblockOffset + 8),
                   blockSize |-> getUint32(b, superblockOffset + 12),
                   sectorsPerBlock |-> getUint32(b, superblockOffset + 16),
                   bytesPerSector |-> getUint32(b, superblockOffset + 20),
                   totalBlocks |-> getUint32(b, superblockOffset + 24),
                   rootDirectoryBlock |-> getUint32(b, superblockOffset + 28),
                   metadataTableBlock |-> getUint32(b, superblockOffset + 32),
                   checkpointBlock |-> getUint32(b, superblockOffset + 36)]

\* validateRefsImage: false only for the empty buffer
validateRefsImage(b) == b.len # 0

(***************************************************************************)
(* Record store: a JavaScript Map keyed by fileId. Map.set on a key that   *)
(* is present replaces the value and keeps the key's position.             *)
(* The field synthetic of a record and the field clobbered of the store    *)
(* are history: which code path produced the record, and whether a set     *)
(* ever replaced a record produced by the other code path.                 *)
(***************************************************************************)
Undefined == "undefined"

EmptyStore == [order |-> <<>>, rec |-> <<>>, clobbered |-> FALSE]

StoreHas(store, id) == id \in DOMAIN store.rec

StoreSet(store, r) ==
    IF StoreHas(store, r.fileId)
    THEN [order |-> store.order,
          rec |-> [store.rec EXCEPT ![r.fileId] = r],
          clobbered |-> store.clobbered
                        \/ store.rec[r.fileId].synthetic # r.synthetic]
    ELSE [order |-> Append(store.order, r.fileId),
          rec |-> (r.fileId :> r) @@ store.rec,
          clobbered |-> store.clobbered]

StoreSize(store) == Len(store.order)

(***************************************************************************)
(* File record decoding                                                    *)
(***************************************************************************)
\* attributes & 0x10 and attributes & 0x80000000 on the four attribute bytes
DirectoryBit(attributes) == (attributes[1] \div 16) % 2 = 1
DeletedBit(attributes) == attributes[4] >= 128

\* The fixed fields end at offset + 54 (the reads run in increasing offset
\* order, the last one being the 16-bit name length at offset + 52); the name
\* is a Uint8Array view of 2 * fileNameLength bytes at offset + 54.
parseFileRecord(b, offset) ==
    IF ~InBounds(b, offset, 54) THEN [threw |-> TRUE]
    ELSE LET fileNameLength == getUint16(b, offset + 52)
             attributes == readString(b, offset + 16, 4)
         IN  IF ~InBounds(b, offset + 54, fileNameLength * 2) THEN [threw |-> TRUE]
             ELSE [threw |-> FALSE,
                   record |->
                     [fileId |-> getUint32(b, offset + 8),
                      parentId |-> getUint32(b, offset + 12),
                      fileName |-> readUnicodeString(b, offset + 54, fileNameLength),
                      fileSize |-> getBigUint64(b, offset + 20),
                      attributes |-> attributes,
                      isDirectory |-> DirectoryBit(attributes),
                      isDeleted |-> DeletedBit(attributes),
                      md5Hash |-> Undefined,
                      sha1Hash |-> Undefined,
                      synthetic |-> FALSE]]

(***************************************************************************)
(* Synthetic structure generator                                           *)
(***************************************************************************)
MockRecord(id, parent, name, isDir, size, deleted) ==
    [fileId |-> id, parentId |-> parent, fileName |-> name, fileSize |-> size,
     attributes |-> IF isDir THEN <<16, 0, 0, 0>> ELSE <<32, 0, 0, 0>>,
     isDirectory |-> isDir, isDeleted |-> deleted,
     md5Hash |-> Undefined, sha1Hash |-> Undefined, synthetic |-> TRUE]

mockStructure ==
    << MockRecord(1, 0, "", TRUE, 0, FALSE),
       MockRecord(2, 1, "Windows", TRUE, 0, FALSE),
       MockRecord(3, 1, "Program Files", TRUE, 0, FALSE),
       MockRecord(4, 1, "Users", TRUE, 0, FALSE),
       MockRecord(5, 1, "System Volume Information", TRUE, 0, FALSE),
       MockRecord(6, 2, "System32", TRUE, 0, FALSE),
       MockRecord(7, 2, "SysWOW64", TRUE, 0, FALSE),
       MockRecord(8, 6, "kernel32.dll", FALSE, 1024000, FALSE),
       MockRecord(9, 6, "ntdll.dll", FALSE, 2048000, FALSE),
       MockRecord(10, 6, "user32.dll", FALSE, 1536000, FALSE),
       MockRecord(11, 4, "Administrator", TRUE, 0, FALSE),
       MockRecord(12, 4, "Public", TRUE, 0, FALSE),
       MockRecord(13, 11, "Desktop", TRUE, 0, FALSE),
       MockRecord(14, 11, "Documents", TRUE, 0, FALSE),
       MockRecord(15, 13, "shortcut.lnk", FALSE, 2048, FALSE),
       MockRecord(16, 14, "report.docx", FALSE, 524288, FALSE),
       MockRecord(17, 14, "data.xlsx", FALSE, 1048576, FALSE),
       MockRecord(18, 1, "$Recycle.Bin", TRUE, 0, FALSE),
       MockRecord(19, 18, "deleted_file.txt", FALSE, 4096, TRUE),
       MockRecord(20, 3, "Microsoft Office", TRUE, 0, FALSE),
       MockRecord(21, 20, "WINWORD.EXE", FALSE, 15728640, FALSE) >>

\* this.fileRecords.set for the first n of recs, in order; the singleton
\* binds the Map as it stands after the first n - 1 calls
RECURSIVE SetAll(_, _, _)
SetAll(store, recs, n) ==
    IF n = 0 THEN store
    ELSE CHOOSE after \in {StoreSet(before, recs[n]) :
                             before \in {SetAll(store, recs, n - 1)}} : TRUE

generateMockFileSystem(store) == SetAll(store, mockStructure, Len(mockStructure))

(***************************************************************************)
(* Metadata scanner                                                        *)
(***************************************************************************)
Max(a, b) == IF a >= b THEN a ELSE b

\* for (let i = 0; i < 1000 && ...
EntryCap == 1000

\* Math.max(entrySize, 128)
MinStep == 128

\* a step of the entry size alone where it is 64 or more
StepOfHalfTheMinimum(entrySize) == Max(entrySize, 64)

\* currentOffset += Math.max(entrySize, 128)
Step(entrySize) == Max(entrySize, MinStep)

\* the loop variables before the first iteration
ScanStart(metadataOffset, store) ==
    [i |-> 0, currentOffset |-> metadataOffset, threw |-> FALSE, store |-> store,
     offsets |-> <<>>]

\* i < 1000 && currentOffset < this.buffer.byteLength - 128, unless
\* parseFileRecord has thrown
ScanGoesOn(b, scan) ==
    ~scan.threw /\ scan.i < EntryCap /\ scan.currentOffset < b.len - 128

\* one iteration of the for loop of parseMetadataTable, if there is one
ScanEntry(b, scan) ==
    IF ~ScanGoesOn(b, scan) THEN scan
    ELSE LET entryType == getUint32(b, scan.currentOffset)
             entrySize == getUint32(b, scan.currentOffset + 4)
             r == parseFileRecord(b, scan.currentOffset)
             read == Append(scan.offsets, scan.currentOffset)
         IN  IF entryType = 48 /\ r.threw
             THEN [scan EXCEPT !.threw = TRUE, !.offsets = read]
             ELSE [i |-> scan.i + 1,
                   currentOffset |-> scan.currentOffset + Step(entrySize),
                   threw |-> FALSE,
                   store |-> IF entryType = 48 THEN StoreSet(scan.store, r.record)
                             ELSE scan.store,
                   offsets |-> read]

\* the next n iterations of the loop, or as many as there are; the loop has
\* ended after EntryCap of them at the latest, i being one of its conditions
RECURSIVE ScanEntries(_, _, _)
ScanEntries(b, scan, n) ==
    IF n = 0 \/ ~ScanGoesOn(b, scan) THEN scan
    ELSE IF n = 1 THEN ScanEntry(b, scan)
    ELSE ScanEntries(b, ScanEntries(b, scan, n \div 2), n - n \div 2)

\* geometry too small for the buffer, or a signature that includes 'Mock'
UsesMockStructure(b, sb) ==
    \/ b.len < sb.metadataTableBlock * sb.blockSize + 1024
    \/ Includes(sb.signature, Mock)

parseMetadataTable(b, sb, store) ==
    IF UsesMockStructure(b, sb)
    THEN [threw |-> FALSE, store |-> generateMockFileSystem(store), offsets |-> <<>>]
    ELSE LET scan == ScanEntries(b, ScanStart(sb.metadataTableBlock * sb.blockSize, store),
                                 EntryCap)
         IN  IF scan.threw THEN scan
             ELSE IF StoreSize(scan.store) = 0
                  THEN [scan EXCEPT !.store = generateMockFileSystem(scan.store)]
                  ELSE scan

(***************************************************************************)
(* Tree walker. traverseBTreeNode recurses; the model keeps its call stack *)
(* as a sequence of frames [block, depth, next], the top frame first.      *)
(* next = -1: the call has just been made; next = i >= 0: the node is      *)
(* internal and its loop over the child pointers stands at index i.        *)
(***************************************************************************)
DepthCap == 10

\* this.superblock?.blockSize || 4096
WalkBlockSize(sb) == IF sb.blockSize # 0 THEN sb.blockSize ELSE 4096

NodeOffset(sb, blockNumber) == blockNumber * WalkBlockSize(sb)

\* a guard that lets one more level through
TooDeepOffByOne(depth) == depth > DepthCap + 1

\* if (depth > 10) return
TooDeep(depth) == depth > DepthCap

\* if (offset >= this.buffer.byteLength) return
OffsetOutside(b, offset) == offset >= b.len

\* the reads of the node header: a 32-bit word at offset, 16 bits at offset + 4
HeaderReadable(b, offset) == InBounds(b, offset, 4) /\ InBounds(b, offset + 4, 2)

IsLeaf(b, offset) == getUint32(b, offset) % 2 = 1
KeyCount(b, offset) == getUint16(b, offset + 4)

\* the leaf loop from entry i at entryOffset
RECURSIVE LeafEntries(_, _, _, _, _)
LeafEntries(b, keyCount, i, entryOffset, store) ==
    IF ~(i < keyCount /\ i < 100) THEN [threw |-> FALSE, store |-> store]
    ELSE IF ~InBounds(b, entryOffset, 2) THEN [threw |-> TRUE, store |-> store]
    ELSE LET entrySize == getUint16(b, entryOffset)
             next == entryOffset + Max(entrySize, 32)
         IN  IF entrySize > 0 /\ entrySize < 1024
             THEN LET r == parseFileRecord(b, entryOffset)
                  IN  IF r.threw THEN [threw |-> TRUE, store |-> store]
                      ELSE LeafEntries(b, keyCount, i + 1, next, StoreSet(store, r.record))
             ELSE LeafEntries(b, keyCount, i + 1, next, store)

\* the offset of child pointer i of the internal node at offset
ChildPointerOffset(b, offset, i) == offset + 16 + KeyCount(b, offset) * 8 + i * 4

\* for (let i = 0; i <= keyCount && i < 50; i++)
ChildLoopRuns(keyCount, i) == i <= keyCount /\ i < 50

\* if (childBlock > 0 && childBlock < this.superblock!.totalBlocks)
ChildVisited(sb, childBlock) == childBlock > 0 /\ childBlock < sb.totalBlocks

(***************************************************************************)
(* Hierarchy builder. Items are JavaScript objects shared by reference:    *)
(* the model keeps them in a map by fileId and children hold fileIds.      *)
(***************************************************************************)
ItemName(record) ==
    IF record.fileName # "" THEN record.fileName ELSE "File_" \o ToString(record.fileId)

NewItem(record) ==
    [id |-> ToString(record.fileId),
     name |-> ItemName(record),
     type |-> IF record.isDirectory THEN "directory" ELSE "file",
     size |-> record.fileSize,
     path |-> "",
     hasChildren |-> record.isDirectory,
     children |-> <<>>,
     fileId |-> record.fileId,
     parentId |-> record.parentId,
     attributes |-> record.attributes,
     isDeleted |-> record.isDeleted,
     md5Hash |-> record.md5Hash,
     sha1Hash |-> record.sha1Hash,
     blockNumber |-> record.fileId \div 1000,
     entryIndex |-> record.fileId % 1000,
     btreeLevel |-> 0]

\* one iteration of the "Build hierarchy" loop, for the item of fileId
PlaceItem(store, tree, fileId) ==
    LET record == store.rec[fileId]
        item == tree.items[fileId]
    IN  IF record.parentId = 0 \/ record.parentId \notin DOMAIN tree.items
        THEN [roots |-> Append(tree.roots, fileId),
              items |-> [tree.items EXCEPT ![fileId].path = "/" \o item.name]]
        ELSE LET parent == tree.items[record.parentId]
             IN  IF parent.hasChildren
                 THEN [roots |-> tree.roots,
                       items |-> [tree.items EXCEPT
                                    ![record.parentId].children = Append(@, fileId),
                                    ![fileId].path = parent.path \o "/" \o item.name]]
                 ELSE tree

\* the "Build hierarchy" loop over the first n identifiers, in Map order;
\* the singleton binds the tree as it stands after the first n - 1 iterations
RECURSIVE PlaceAll(_, _, _)
PlaceAll(store, tree, n) ==
    IF n = 0 THEN tree
    ELSE CHOOSE after \in {PlaceItem(store, before, store.order[n]) :
                             before \in {PlaceAll(store, tree, n - 1)}} : TRUE

buildFileTree(store) ==
    PlaceAll(store,
             [roots |-> <<>>, items |-> [id \in DOMAIN store.rec |-> NewItem(store.rec[id])]],
             Len(store.order))

NoTree == [roots |-> <<>>, items |-> <<>>]

(***************************************************************************)
(* Fingerprint stage                                                       *)
(***************************************************************************)
HexChars == <<"0", "1", "2", "3", "4", "5", "6", "7",
              "8", "9", "a", "b", "c", "d", "e", "f">>

HashLength(type) == IF type = "md5" THEN 32 ELSE 40
HashSeed(type, fileId) == fileId * (IF type = "md5" THEN 31 ELSE 37)

RECURSIVE HashFrom(_, _, _)
HashFrom(seed, i, length) ==
    IF i >= length THEN ""
    ELSE IF i + 1 = length THEN HexChars[((seed + i) % 16) + 1]
    ELSE HashFrom(seed, i, (i + length) \div 2) \o HashFrom(seed, (i + length) \div 2, length)

generateMockHash(type, fileId) == HashFrom(HashSeed(type, fileId), 0, HashLength(type))

\* if (!record.isDirectory && record.fileSize > 0)
Hashed(record) == ~record.isDirectory /\ record.fileSize > 0

calculateHashes(store) ==
    [store EXCEPT !.rec =
        [id \in DOMAIN store.rec |->
            IF Hashed(store.rec[id])
            THEN [store.rec[id] EXCEPT !.md5Hash = generateMockHash("md5", id),
                                       !.sha1Hash = generateMockHash("sha1", id)]
            ELSE store.rec[id]]]

(***************************************************************************)
(* Input images. Each is built by writing fields, little-endian, at the    *)
(* offsets the parser reads them from.                                     *)
(***************************************************************************)
MaxId == 2        \* file identifiers 1..MaxId in the metadata table
MaxEntries == 2   \* file record entries in the metadata table

Poke(off, bs) == [o \in off..(off + Len(bs) - 1) |-> bs[o - off + 1]]

\* a buffer of len bytes: what was written behind its end is not part of it
MkImage(len, bytes) ==
    [len |-> len, bytes |-> [o \in {x \in DOMAIN bytes : x < len /\ bytes[x] # 0} |-> bytes[o]]]
U16(v) == <<v % 256, (v \div 256) % 256>>
U32(v) == <<v % 256, (v \div 256) % 256, (v \div 65536) % 256, (v \div 16777216) % 256>>

RECURSIVE PokeAll(_, _)
PokeAll(f, i) == IF i = 0 THEN <<>> ELSE f[i] @@ PokeAll(f, i - 1)

\* a file record at off: identifier, parent, attribute bytes, size, the
\* declared name length and the code units actually written after it
RecordBytes(off, r) ==
    Poke(off + 8, U32(r.id)) @@ Poke(off + 12, U32(r.parent))
    @@ Poke(off + 16, r.attr) @@ Poke(off + 20, U32(r.size))
    @@ Poke(off + 52, U16(r.nameLen))
    @@ PokeAll([i \in 1..Len(r.units) |-> Poke(off + 54 + 2 * (i - 1), U16(r.units[i]))],
               Len(r.units))

MetaEntryBytes(off, type, size, r) ==
    Poke(off, U32(type)) @@ Poke(off + 4, U32(size)) @@ RecordBytes(off, r)

LeafEntryBytes(off, size, r) == Poke(off, U16(size)) @@ RecordBytes(off, r)

SuperblockBytes(sig, blockSize, totalBlocks, root, meta) ==
    Poke(superblockOffset, sig) @@ Poke(superblockOffset + 8, U32(3))
    @@ Poke(superblockOffset + 12, U32(blockSize))
    @@ Poke(superblockOffset + 24, U32(totalBlocks))
    @@ Poke(superblockOffset + 28, U32(root))
    @@ Poke(superblockOffset + 32, U32(meta))

\* a tree node at off: a leaf with its entries, or an internal node with its
\* child pointers behind the key array
RECURSIVE LeafBytes(_, _, _)
LeafBytes(off, entries, i) ==
    IF i > Len(entries) THEN <<>>
    ELSE LeafEntryBytes(off, entries[i].size, entries[i].rec)
         @@ LeafBytes(off + Max(entries[i].size, 32), entries, i + 1)

NodeBytes(off, n) ==
    IF n.leaf
    THEN Poke(off, U32(1)) @@ Poke(off + 4, U16(n.keyCount)) @@ LeafBytes(off + 16, n.entries, 1)
    ELSE Poke(off, U32(0)) @@ Poke(off + 4, U16(n.keyCount))
         @@ PokeAll([i \in 1..Len(n.children) |->
                        Poke(off + 16 + n.keyCount * 8 + 4 * (i - 1), U32(n.children[i]))],
                    Len(n.children))

DirAttr == <<16, 0, 0, 0>>
FileAttr == <<32, 0, 0, 0>>
DeletedFileAttr == <<32, 0, 0, 128>>

Rec(id, parent, attr, size) ==
    [id |-> id, parent |-> parent, attr |-> attr, size |-> size,
     nameLen |-> 1, units |-> <<96 + id>>]

Kinds == {<<DirAttr, 0>>, <<FileAttr, 7>>}

RecSpecs == {Rec(id, parent, k[1], k[2]) : id \in 1..MaxId, parent \in 0..MaxId, k \in Kinds}

RefsSig == <<82, 101, 70, 83, 0, 0, 0, 0>>
RefsMockSig == <<82, 101, 70, 83, 77, 111, 99, 107>>

\* a signed image whose metadata table (block 2) holds the given entries and
\* whose root directory block (3) lies behind the end of the buffer
MetaImage(sig, blockSize, entries) ==
    MkImage(9216,
            SuperblockBytes(sig, blockSize, 3, 3, 2)
            @@ PokeAll([i \in 1..Len(entries) |->
                           MetaEntryBytes(blockSize * 2 + 128 * (i - 1), 48, 0, entries[i])],
                       Len(entries)))

MetaImages ==
    {MetaImage(RefsSig, 4096, es) : es \in UNION {[1..n -> RecSpecs] : n \in 0..MaxEntries}}

\* a first entry with a stated size, and an entry at 9087, the last offset the
\* scan reads at in a buffer of 9216 bytes, whose declared name length fits
\* (37 code units end at 9215) or does not
OverrunImages ==
    {MkImage(9216,
             SuperblockBytes(RefsSig, 4096, 3, 3, 2)
             @@ MetaEntryBytes(8192, 48, size, Rec(1, 0, DirAttr, 0))
             @@ MetaEntryBytes(9087, 48, 128, [Rec(2, 1, FileAttr, 7) EXCEPT !.nameLen = n])) :
       size \in {0, 200, 895, 100000}, n \in {0, 1, 37, 38, 65535}}

\* a signature that includes 'Mock'; an empty file; a deleted file; a block
\* size of 0, which puts the metadata table at offset 0
SignedSpecials ==
    {MetaImage(RefsMockSig, 4096, <<Rec(1, 0, DirAttr, 0)>>),
     MetaImage(RefsSig, 4096, <<Rec(1, 0, DirAttr, 0), Rec(2, 1, FileAttr, 0)>>),
     MetaImage(RefsSig, 4096, <<Rec(1, 0, DirAttr, 0), Rec(2, 1, DeletedFileAttr, 7)>>),
     MkImage(9216,
             SuperblockBytes(RefsSig, 0, 3, 3, 2)
             @@ MetaEntryBytes(0, 48, 8900, Rec(1, 0, DirAttr, 0))
             @@ MetaEntryBytes(8900, 48, 0, Rec(2, 1, FileAttr, 7)))}

\* a metadata table of one directory entry followed by zero bytes, in a
\* buffer that ends just behind the header of the 1000th entry, or far enough
\* for a 1001st
CapImages ==
    {MkImage(len,
             SuperblockBytes(RefsSig, 4096, 35, 3, 2)
             @@ MetaEntryBytes(8192, 48, 0, Rec(1, 0, DirAttr, 0))) :
       len \in {136193, 140000}}

\* all-zero buffers of every interesting length
ZeroLens == {0, 1, 100, 8191, 8192, 40960, 40962, 40965, 40970, 40980, 49152}
ZeroImages == {MkImage(n, <<>>) : n \in ZeroLens}

\* unsigned images (synthesized geometry: root block 10, 4096-byte blocks)
\* with tree nodes written at blocks 10 and 11
LeafRecs == {Rec(id, parent, FileAttr, 7) : id \in {1, 22}, parent \in {0, 1}}
LeafNodes ==
    {[leaf |-> TRUE, keyCount |-> k, entries |-> <<>>, children |-> <<>>] : k \in {0, 1}}
    \cup {[leaf |-> TRUE, keyCount |-> 1, entries |-> <<[size |-> sz, rec |-> r]>>,
           children |-> <<>>] : sz \in {0, 64, 1024}, r \in LeafRecs}
ChildPtrs == {0, 10, 11, 12}
InternalNode(cs) ==
    [leaf |-> FALSE, keyCount |-> Len(cs) - 1, entries |-> <<>>, children |-> cs]
RootNodes == {InternalNode(cs) : cs \in UNION {[1..n -> ChildPtrs] : n \in {1, 2}}}
\* what stands at block 11 when the root points there: a leaf, or an internal
\* node with one child pointer (0, back to the root, to itself, out of range)
SecondNodes == LeafNodes \cup {InternalNode(<<c>>) : c \in ChildPtrs}
PointsTo(n, block) == \E i \in 1..Len(n.children) : n.children[i] = block

TreeImage(len, n10, n11) ==
    MkImage(len, NodeBytes(40960, n10) @@ NodeBytes(45056, n11))

\* the nodes that stand at block 11 under a given root
SecondNodesOf(n10) == {n \in SecondNodes : PointsTo(n10, 11) \/ n = InternalNode(<<0>>)}

TreeImages ==
    {TreeImage(len, n, InternalNode(<<0>>)) : len \in {41006, 49152}, n \in LeafNodes}
    \cup UNION {{TreeImage(49152, n10, n11) : n11 \in SecondNodesOf(n10)} : n10 \in RootNodes}

\* a root with 60 keys whose 51st child pointer names the leaf at block 11,
\* the pointers before it being 0
WideImages ==
    {TreeImage(49152,
               [leaf |-> FALSE, keyCount |-> 60, entries |-> <<>>,
                children |-> [i \in 1..51 |-> IF i = 51 THEN 11 ELSE 0]],
               n) : n \in {n \in LeafNodes : n.keyCount = 0}}

\* a signed image with a leaf at its root directory block (3) and one decoded
\* directory in its metadata table (block 4)
SignedTreeImages ==
    {MkImage(17408,
             SuperblockBytes(RefsSig, 4096, 5, 3, 4)
             @@ MetaEntryBytes(16384, 48, 128, Rec(1, 0, DirAttr, 0))
             @@ NodeBytes(12288, n)) : n \in LeafNodes}

Images ==
    ZeroImages \cup MetaImages \cup OverrunImages \cup SignedSpecials
    \cup TreeImages \cup SignedTreeImages \cup CapImages \cup WideImages

(***************************************************************************)
(* parseImage                                                              *)
(***************************************************************************)
\* a run that announces the hashing before the tree building
NotificationsOutOfOrder ==
    [n10 |-> <<"Parsing ReFS superblock...", 10, "parseSuperblock">>,
     n30 |-> <<"Reading metadata table...", 30, "parseMetadataTable">>,
     n50 |-> <<"Traversing B+Tree structure...", 50, "traverseBTree">>,
     n80 |-> <<"Calculating hashes...", 95, "buildFileTree">>,
     n95 |-> <<"Building file system tree...", 80, "calculateHashes">>,
     n100 |-> <<"Parse complete", 100, "return">>]

\* the updateProgress calls of parseImage: position -> message, percentage
\* and the stage that follows
Notifications ==
    [n10 |-> <<"Parsing ReFS superblock...", 10, "parseSuperblock">>,
     n30 |-> <<"Reading metadata table...", 30, "parseMetadataTable">>,
     n50 |-> <<"Traversing B+Tree structure...", 50, "traverseBTree">>,
     n80 |-> <<"Building file system tree...", 80, "buildFileTree">>,
     n95 |-> <<"Calculating hashes...", 95, "calculateHashes">>,
     n100 |-> <<"Parse complete", 100, "return">>]

Pending == [state |-> "pending", stage |-> ""]
Rejected(stage) == [state |-> "rejected", stage |-> stage]
Resolved == [state |-> "resolved", stage |-> ""]

\* an optional number or date: <<>> when undefined, else <<value>>
Absent == <<>>

\* searchOptions as SearchDialog first sets it
DefaultSearchOptions ==
    [query |-> "", caseSensitive |-> FALSE, useRegex |-> FALSE, searchInPath |-> TRUE,
     searchInContent |-> FALSE, fileTypes |-> {}, sizeMin |-> Absent, sizeMax |-> Absent,
     dateFrom |-> Absent, dateTo |-> Absent, includeDeleted |-> FALSE, hashSearch |-> ""]

\* exportOptions as the export dialog first sets it
DefaultExportOptions ==
    [format |-> "json", includeMetadata |-> TRUE, includeDeleted |-> FALSE,
     includeHashes |-> TRUE, flattenStructure |-> FALSE]

\* getAdvancedSearchResults has not run
NoAdvancedResults == [state |-> "none"]

\* findTextMatches is not running
NoRegExp == [state |-> "none"]

\* no search engine has been constructed
NoSearchEngine ==
    /\ items = NoTree
    /\ searchIndex = <<>>
    /\ searchOptions = DefaultSearchOptions
    /\ results = <<>>
    /\ isSearching = FALSE
    /\ timers = <<>>
    /\ advanced = NoAdvancedResults
    /\ regex = NoRegExp

NotExported == [state |-> "none"]

\* no export engine has been constructed
NoExportEngine ==
    /\ exportItems = NoTree
    /\ exportOptions = DefaultExportOptions
    /\ exported = NotExported
    /\ clock = 1

Init ==
    /\ NoSearchEngine
    /\ NoExportEngine
    /\ buffer \in Images
    /\ pc = "n10"
    /\ superblock = NoSuperblock
    /\ fileRecords = EmptyStore
    /\ scanned = <<>>
    /\ progress = <<>>
    /\ stack = <<>>
    /\ visited = {}
    /\ fileTree = NoTree
    /\ outcome = Pending

\* this.updateProgress(message, percentage)
updateProgress ==
    /\ pc \in DOMAIN Notifications
    /\ progress' = Append(progress, <<Notifications[pc][1], Notifications[pc][2]>>)
    /\ pc' = Notifications[pc][3]
    /\ UNCHANGED <<buffer, superblock, fileRecords, stack, visited, fileTree, outcome>>
    /\ UNCHANGED <<scanned, searchVars, exportVars>>

\* catch (error) { throw new Error(...) }
Throw(stage) ==
    /\ pc' = "failed"
    /\ outcome' = Rejected(stage)

AwaitParseSuperblock ==
    /\ pc = "parseSuperblock"
    /\ superblock' = parseSuperblock(buffer)
    /\ pc' = "n30"
    /\ UNCHANGED <<buffer, fileRecords, progress, stack, visited, fileTree, outcome>>
    /\ UNCHANGED <<scanned, searchVars, exportVars>>

AwaitParseMetadataTable ==
    /\ pc = "parseMetadataTable"
    /\ LET r == parseMetadataTable(buffer, superblock, fileRecords)
       IN  /\ fileRecords' = r.store
           /\ scanned' = r.offsets
           /\ IF r.threw THEN Throw("parseMetadataTable")
              ELSE pc' = "n50" /\ UNCHANGED outcome
    /\ UNCHANGED <<buffer, superblock, progress, stack, visited, fileTree>>
    /\ UNCHANGED <<searchVars, exportVars>>

\* traverseBTree: the call traverseBTreeNode(rootBlock, 0)
AwaitTraverseBTree ==
    /\ pc = "traverseBTree"
    /\ stack' = <<[block |-> superblock.rootDirectoryBlock, depth |-> 0, next |-> -1]>>
    /\ pc' = "traverseBTreeNode"
    /\ UNCHANGED <<buffer, superblock, fileRecords, progress, visited, fileTree, outcome>>
    /\ UNCHANGED <<scanned, searchVars, exportVars>>

\* the return of a call of traverseBTreeNode; the return of the outermost
\* call ends traverseBTree
Return ==
    /\ stack' = Tail(stack)
    /\ pc' = IF Len(stack) = 1 THEN "n80" ELSE pc

\* a call of traverseBTreeNode up to its first child pointer: the guards, the
\* header, and the whole of a leaf
TraverseEnter ==
    /\ pc = "traverseBTreeNode"
    /\ stack # <<>>
    /\ Head(stack).next = -1
    /\ LET f == Head(stack)
           offset == NodeOffset(superblock, f.block)
       IN  IF TooDeep(f.depth) \/ OffsetOutside(buffer, offset)
           THEN Return /\ UNCHANGED <<fileRecords, visited, outcome>>
           ELSE IF ~HeaderReadable(buffer, offset)
           THEN /\ Throw("traverseBTree")
                /\ visited' = visited \cup {<<f.block, f.depth>>}
                /\ UNCHANGED <<fileRecords, stack>>
           ELSE IF IsLeaf(buffer, offset)
           THEN LET r == LeafEntries(buffer, KeyCount(buffer, offset), 0, offset + 16,
                                     fileRecords)
                IN  /\ fileRecords' = r.store
                    /\ visited' = visited \cup {<<f.block, f.depth>>}
                    /\ IF r.threw THEN Throw("traverseBTree") /\ UNCHANGED stack
                       ELSE Return /\ UNCHANGED outcome
           ELSE /\ stack' = <<[f EXCEPT !.next = 0]>> \o Tail(stack)
                /\ visited' = visited \cup {<<f.block, f.depth>>}
                /\ UNCHANGED <<fileRecords, pc, outcome>>
    /\ UNCHANGED <<buffer, superblock, progress, fileTree>>
    /\ UNCHANGED <<scanned, searchVars, exportVars>>

\* one iteration of the loop over the child pointers of an internal node,
\* or its end
TraverseChild ==
    /\ pc = "traverseBTreeNode"
    /\ stack # <<>>
    /\ Head(stack).next >= 0
    /\ LET f == Head(stack)
           offset == NodeOffset(superblock, f.block)
           at == ChildPointerOffset(buffer, offset, f.next)
           after == <<[f EXCEPT !.next = f.next + 1]>> \o Tail(stack)
       IN  IF ~ChildLoopRuns(KeyCount(buffer, offset), f.next)
           THEN Return /\ UNCHANGED outcome
           ELSE IF ~InBounds(buffer, at, 4)
           THEN Throw("traverseBTree") /\ UNCHANGED stack
           ELSE IF ChildVisited(superblock, getUint32(buffer, at))
           THEN /\ stack' = <<[block |-> getUint32(buffer, at), depth |-> f.depth + 1,
                               next |-> -1]>> \o after
                /\ UNCHANGED <<pc, outcome>>
           ELSE stack' = after /\ UNCHANGED <<pc, outcome>>
    /\ UNCHANGED <<buffer, superblock, fileRecords, progress, visited, fileTree>>
    /\ UNCHANGED <<scanned, searchVars, exportVars>>

AwaitBuildFileTree ==
    /\ pc = "buildFileTree"
    /\ fileTree' = buildFileTree(fileRecords)
    /\ pc' = "n95"
    /\ UNCHANGED <<buffer, superblock, fileRecords, progress, stack, visited, outcome>>
    /\ UNCHANGED <<scanned, searchVars, exportVars>>

AwaitCalculateHashes ==
    /\ pc = "calculateHashes"
    /\ fileRecords' = calculateHashes(fileRecords)
    /\ pc' = "n100"
    /\ UNCHANGED <<buffer, superblock, progress, stack, visited, fileTree, outcome>>
    /\ UNCHANGED <<scanned, searchVars, exportVars>>

\* return fileTree
ReturnFileTree ==
    /\ pc = "return"
    /\ pc' = "done"
    /\ outcome' = Resolved
    /\ UNCHANGED <<buffer, superblock, fileRecords, progress, stack, visited, fileTree>>
    /\ UNCHANGED <<scanned, searchVars, exportVars>>

Next ==
    \/ updateProgress
    \/ AwaitParseSuperblock
    \/ AwaitParseMetadataTable
    \/ AwaitTraverseBTree
    \/ TraverseEnter
    \/ TraverseChild
    \/ AwaitBuildFileTree
    \/ AwaitCalculateHashes
    \/ ReturnFileTree

Spec == Init /\ [][Next]_vars

\* traverseBTreeNode is resumed by the event loop after each await (a nested
\* call or sleep(1)): a step of the walk that can be taken is taken
FairSpec == Spec /\ WF_vars(TraverseEnter \/ TraverseChild)

(***************************************************************************)
(* Strings. A string is read one character at a time with SubSeq.          *)
(***************************************************************************)
CharAt(text, i) == SubSeq(text, i, i)

UpperCase == "ABCDEFGHIJKLMNOPQRSTUVWXYZ"
LowerCase == "abcdefghijklmnopqrstuvwxyz"

LowerChar(c) ==
    IF \E k \in 1..26 : CharAt(UpperCase, k) = c
    THEN CharAt(LowerCase, CHOOSE k \in 1..26 : CharAt(UpperCase, k) = c)
    ELSE c

\* String.prototype.toLowerCase
RECURSIVE toLowerCase(_)
toLowerCase(text) ==
    IF Len(text) = 0 THEN ""
    ELSE IF Len(text) = 1 THEN LowerChar(text)
    ELSE toLowerCase(SubSeq(text, 1, Len(text) \div 2))
         \o toLowerCase(SubSeq(text, Len(text) \div 2 + 1, Len(text)))

\* the 0-based positions at which query stands in text
Positions(text, query) ==
    {i \in 0..(Len(text) - Len(query)) : SubSeq(text, i + 1, i + Len(query)) = query}

\* String.prototype.includes
StringIncludes(text, query) == Positions(text, query) # {}

\* the members of a set of numbers in increasing order
Ascending(S) ==
    [k \in 1..Cardinality(S) |-> CHOOSE x \in S : Cardinality({y \in S : y < x}) = k - 1]

\* the concatenation of seqs[lo..hi]
RECURSIVE Flatten(_, _, _)
Flatten(seqs, lo, hi) ==
    IF lo > hi THEN <<>>
    ELSE IF lo = hi THEN seqs[lo]
    ELSE Flatten(seqs, lo, (lo + hi) \div 2) \o Flatten(seqs, (lo + hi) \div 2 + 1, hi)

FlattenAll(seqs) == Flatten(seqs, 1, Len(seqs))

\* a sequence without the later repetitions of its members (the insertion
\* order of a JavaScript Set)
FirstOccurrences(seq) ==
    LET keep == {i \in DOMAIN seq : \A j \in 1..(i - 1) : seq[j] # seq[i]}
    IN  [k \in 1..Cardinality(keep) |-> seq[Ascending(keep)[k]]]

\* falsy for a string property: undefined or ''
Truthy(text) == text # Undefined /\ text # ""

(***************************************************************************)
(* Search engine (src/src/lib/search-engine.ts, ForensicSearchEngine). A   *)
(* forest is [roots, items] as buildFileTree returns it; an item is named  *)
(* by its fileId.                                                          *)
(***************************************************************************)
\* /[\s\-_./\\]+/
Separators == {" ", "\t", "\n", "-", "_", ".", "/", "\\"}

\* text.split(/[\s\-_./\\]+/).filter(token => token.length > 0)
tokenize(text) ==
    LET sep(i) == CharAt(text, i) \in Separators
        starts == {i \in 1..Len(text) : ~sep(i) /\ (i = 1 \/ sep(i - 1))}
        endOf(i) == CHOOSE j \in i..Len(text) :
                        /\ \A k \in i..j : ~sep(k)
                        /\ (j = Len(text) \/ sep(j + 1))
    IN  [k \in 1..Cardinality(starts) |->
            SubSeq(text, Ascending(starts)[k], endOf(Ascending(starts)[k]))]

\* the items of a list of items and of their subtrees, each before its children
RECURSIVE Preorder(_, _)
Preorder(forest, ids) ==
    FlattenAll([k \in DOMAIN ids |->
                   <<ids[k]>> \o Preorder(forest, forest.items[ids[k]].children)])

\* what addToIndex does for one item, before its children: push under every
\* name token and path token, then set the hash keys
IndexWrites(forest, id) ==
    LET item == forest.items[id]
        nameTokens == tokenize(toLowerCase(item.name))
        pathTokens == tokenize(toLowerCase(item.path))
    IN  [k \in DOMAIN nameTokens |-> [op |-> "push", key |-> nameTokens[k], item |-> id]]
        \o [k \in DOMAIN pathTokens |-> [op |-> "push", key |-> pathTokens[k], item |-> id]]
        \o (IF Truthy(item.md5Hash)
            THEN <<[op |-> "set", key |-> toLowerCase(item.md5Hash), item |-> id]>>
            ELSE <<>>)
        \o (IF Truthy(item.sha1Hash)
            THEN <<[op |-> "set", key |-> toLowerCase(item.sha1Hash), item |-> id]>>
            ELSE <<>>)

\* the Map after a sequence of writes: under each key the item of the last
\* set, if any, and the items pushed after it
IndexAfter(writes) ==
    [key \in {writes[i].key : i \in DOMAIN writes} |->
        LET sets == {i \in DOMAIN writes : writes[i].key = key /\ writes[i].op = "set"}
            from == IF sets = {} THEN 1 ELSE Ascending(sets)[Cardinality(sets)]
            kept == {i \in from..Len(writes) : writes[i].key = key}
        IN  [k \in 1..Cardinality(kept) |-> writes[Ascending(kept)[k]].item]]

buildSearchIndex(forest) ==
    LET order == Preorder(forest, forest.roots)
    IN  IndexAfter(FlattenAll([k \in DOMAIN order |-> IndexWrites(forest, order[k])]))

\* The patterns read here: alternatives between "|", each a run of atoms; an
\* atom is a character or ".", alone or under "*"; parentheses group atoms
\* and hold no "|" and carry no "*".
\* new RegExp(query, 'gi') throws on an unbalanced parenthesis and on a "*"
\* with nothing to repeat
RegExpThrows(query) ==
    \/ Cardinality(Positions(query, "(")) # Cardinality(Positions(query, ")"))
    \/ \E i \in Positions(query, "*") :
          i = 0 \/ CharAt(query, i) \in {"*", "|", "("}

\* the pieces of the pattern between its "|"
Alternatives(query) ==
    LET bars == Ascending(Positions(query, "|"))
        from(k) == IF k = 1 THEN 1 ELSE bars[k - 1] + 2
        to(k) == IF k > Len(bars) THEN Len(query) ELSE bars[k]
    IN  [k \in 1..(Len(bars) + 1) |-> SubSeq(query, from(k), to(k))]

\* the atoms of an alternative, in order
Atoms(alternative) ==
    LET at == Ascending({i \in 1..Len(alternative) :
                            CharAt(alternative, i) \notin {"*", "(", ")"}})
    IN  [k \in DOMAIN at |->
            [char |-> CharAt(alternative, at[k]),
             star |-> at[k] < Len(alternative) /\ CharAt(alternative, at[k] + 1) = "*"]]

\* "." stands for any character but a line break, any other character for
\* itself; under the flag i letter case is not told apart, so the pattern
\* and the text are both compared in lower case
AtomMatches(char, c) ==
    IF char = "." THEN c # "\n" ELSE c = char

\* where a match of atoms[k..] that starts at the 0-based position pos of
\* chars ends, -1 when there is none: "*" takes as many characters as the
\* rest allows
RECURSIVE MatchFrom(_, _, _, _)
MatchFrom(chars, atoms, k, pos) ==
    IF k > Len(atoms) THEN pos
    ELSE LET fits(p) == p < Len(chars) /\ AtomMatches(atoms[k].char, chars[p + 1])
         IN  IF atoms[k].star
             THEN LET runs == {n \in 0..(Len(chars) - pos) :
                                  \A m \in 0..(n - 1) : fits(pos + m)}
                      ends == {n \in runs : MatchFrom(chars, atoms, k + 1, pos + n) # -1}
                  IN  IF ends = {} THEN -1
                      ELSE MatchFrom(chars, atoms, k + 1,
                                     pos + (CHOOSE n \in ends : \A m \in ends : m <= n))
             ELSE IF fits(pos) THEN MatchFrom(chars, atoms, k + 1, pos + 1) ELSE -1

\* regex.exec(text) === null
NoMatch == [index |-> -1, end |-> -1]

\* for every 0-based position of the text, and the one behind its last
\* character, where the match that starts there ends (by the first
\* alternative that matches there), -1 when none starts there
MatchEnds(text, query) ==
    LET alternatives == Alternatives(toLowerCase(query))
        atoms == [k \in DOMAIN alternatives |-> Atoms(alternatives[k]) \o <<>>] \o <<>>
        lower == toLowerCase(text)
        chars == [i \in 1..Len(text) |-> CharAt(lower, i)] \o <<>>
        ends(i) == SelectSeq([k \in DOMAIN atoms |-> MatchFrom(chars, atoms[k], 1, i)],
                             LAMBDA end : end # -1)
    IN  [n \in 1..(Len(text) + 1) |->
            LET found == ends(n - 1) IN IF found = <<>> THEN -1 ELSE Head(found)] \o <<>>

\* regex.exec(text) with the flag g and the given lastIndex: the leftmost
\* match at or after lastIndex; match.index and match.index + match[0].length
ExecIn(ends, lastIndex) ==
    LET at == {i \in lastIndex..(Len(ends) - 1) : ends[i + 1] # -1}
    IN  IF at = {} THEN NoMatch
        ELSE LET index == CHOOSE i \in at : \A j \in at : i <= j
             IN  [index |-> index, end |-> ends[index + 1]]

exec(text, query, lastIndex) == ExecIn(MatchEnds(text, query), lastIndex)

\* regex.lastIndex after that call: the end of the match, 0 after a null
LastIndexAfter(match) == IF match = NoMatch THEN 0 ELSE match.end

\* the while loop of findTextMatches from the given lastIndex, for a regex
\* that matches at least one character each time
RECURSIVE ExecFrom(_, _)
ExecFrom(ends, from) ==
    LET match == ExecIn(ends, from)
    IN  IF match = NoMatch THEN <<>>
        ELSE <<[start |-> match.index, end |-> match.end]>>
             \o ExecFrom(ends, LastIndexAfter(match))

findTextMatches(text, query, useRegex) ==
    IF useRegex /\ ~RegExpThrows(query)
    THEN ExecFrom(MatchEnds(text, query), 0)
    ELSE LET at == Ascending(Positions(text, query))
         IN  [k \in DOMAIN at |-> [start |-> at[k], end |-> at[k] + Len(query)]]

findMatches(item, options) ==
    IF options.query = "" THEN <<>>
    ELSE LET searchText == IF options.caseSensitive THEN options.query
                           ELSE toLowerCase(options.query)
             nameText == IF options.caseSensitive THEN item.name ELSE toLowerCase(item.name)
             pathText == IF options.caseSensitive THEN item.path ELSE toLowerCase(item.path)
             nameMatches == findTextMatches(nameText, searchText, options.useRegex)
             pathMatches == findTextMatches(pathText, searchText, options.useRegex)
             hashQuery == toLowerCase(options.hashSearch)
             hashMatch(hash) ==
                 IF Truthy(hash) /\ StringIncludes(toLowerCase(hash), hashQuery)
                 THEN <<[field |-> "hash", value |-> hash, startIndex |-> 0,
                         endIndex |-> Len(hash)]>>
                 ELSE <<>>
         IN  [k \in DOMAIN nameMatches |->
                 [field |-> "name", value |-> item.name,
                  startIndex |-> nameMatches[k].start, endIndex |-> nameMatches[k].end]]
             \o (IF options.searchInPath
                 THEN [k \in DOMAIN pathMatches |->
                         [field |-> "path", value |-> item.path,
                          startIndex |-> pathMatches[k].start,
                          endIndex |-> pathMatches[k].end]]
                 ELSE <<>>)
             \o (IF options.hashSearch # ""
                 THEN hashMatch(item.md5Hash) \o hashMatch(item.sha1Hash)
                 ELSE <<>>)

\* item.name.split('.').pop()?.toLowerCase() || ''
Extension(name) ==
    LET dots == Positions(name, ".")
    IN  toLowerCase(IF dots = {} THEN name
                    ELSE SubSeq(name, Ascending(dots)[Cardinality(dots)] + 2, Len(name)))

applyFilters(item, options) ==
    /\ options.fileTypes # {} => Extension(item.name) \in options.fileTypes
    /\ options.sizeMin # Absent => ~(item.size < options.sizeMin[1])
    /\ options.sizeMax # Absent => ~(item.size > options.sizeMax[1])
    /\ options.dateFrom # Absent => ~(item.modified < options.dateFrom[1])
    /\ options.dateTo # Absent => ~(item.modified > options.dateTo[1])
    /\ ~(~options.includeDeleted /\ item.isDeleted)

FieldScore(field) ==
    CASE field = "name" -> 10
      [] field = "path" -> 5
      [] field = "hash" -> 15
      [] field = "content" -> 3

RECURSIVE SumScores(_, _)
SumScores(matches, n) ==
    IF n = 0 THEN 0 ELSE FieldScore(matches[n].field) + SumScores(matches, n - 1)

\* a score without the boost for exact matches
calculateScoreWithoutBoost(item, matches, options) ==
    SumScores(matches, Len(matches))
    + (IF item.type = "file" THEN 2 ELSE 0)
    - (IF item.isDeleted THEN 1 ELSE 0)

calculateScore(item, matches, options) ==
    SumScores(matches, Len(matches))
    + (IF \E k \in DOMAIN matches :
             toLowerCase(matches[k].value) = toLowerCase(options.query)
       THEN 20 ELSE 0)
    + (IF item.type = "file" THEN 2 ELSE 0)
    - (IF item.isDeleted THEN 1 ELSE 0)

\* Array.prototype.sort((a, b) => b.score - a.score): stable, highest first
SortByScore(rs) ==
    LET before(i, j) == rs[i].score > rs[j].score \/ (rs[i].score = rs[j].score /\ i < j)
    IN  [k \in DOMAIN rs |->
            rs[CHOOSE i \in DOMAIN rs :
                  Cardinality({j \in DOMAIN rs : before(j, i)}) = k - 1]]

\* the items the index names for the tokens of the query, as a Set keeps them
CandidateItems(index, query) ==
    LET queryTokens == tokenize(toLowerCase(query))
    IN  FirstOccurrences(FlattenAll(
            [k \in DOMAIN queryTokens |->
                IF queryTokens[k] \in DOMAIN index THEN index[queryTokens[k]] ELSE <<>>]))

search(forest, index, options) ==
    LET start == IF options.query # "" /\ ~options.useRegex
                 THEN CandidateItems(index, options.query)
                 ELSE forest.roots
        \* searchItems: every item once, at its first visit
        processed == FirstOccurrences(Preorder(forest, start))
        found == SelectSeq([k \in DOMAIN processed |->
                               [item |-> processed[k],
                                matches |-> findMatches(forest.items[processed[k]], options)]],
                           LAMBDA r : Len(r.matches) > 0)
        scored == [k \in DOMAIN found |->
                      [item |-> found[k].item, matches |-> found[k].matches,
                       score |-> calculateScore(forest.items[found[k].item],
                                                found[k].matches, options)]]
    IN  SortByScore(SelectSeq(scored,
                              LAMBDA r : applyFilters(forest.items[r.item], options)))

\* Array.prototype.sort with a comparator b.key - a.key: stable, largest first
SortDescending(seq, key(_)) ==
    LET before(i, j) == key(seq[i]) > key(seq[j]) \/ (key(seq[i]) = key(seq[j]) /\ i < j)
    IN  [k \in DOMAIN seq |->
            seq[CHOOSE i \in DOMAIN seq :
                   Cardinality({j \in DOMAIN seq : before(j, i)}) = k - 1]]

\* the groups without the filter on files.length
findDuplicateFilesKeepingSingles(forest) ==
    LET collected == SelectSeq(Preorder(forest, forest.roots),
                               LAMBDA id : /\ forest.items[id].type = "file"
                                           /\ Truthy(forest.items[id].md5Hash))
        hashes == FirstOccurrences([k \in DOMAIN collected |->
                                       forest.items[collected[k]].md5Hash])
    IN  [k \in DOMAIN hashes |->
            [hash |-> hashes[k],
             files |-> SelectSeq(collected,
                          LAMBDA id : forest.items[id].md5Hash = hashes[k])]]

\* the hashMap of findDuplicateFiles keeps its keys in the order of their
\* first set and, under each key, the files in the order they were pushed
findDuplicateFiles(forest) ==
    LET collected == SelectSeq(Preorder(forest, forest.roots),
                               LAMBDA id : /\ forest.items[id].type = "file"
                                           /\ Truthy(forest.items[id].md5Hash))
        hashes == FirstOccurrences([k \in DOMAIN collected |->
                                       forest.items[collected[k]].md5Hash])
        entries == [k \in DOMAIN hashes |->
                       [hash |-> hashes[k],
                        files |-> SelectSeq(collected,
                                     LAMBDA id : forest.items[id].md5Hash = hashes[k])]]
    IN  SelectSeq(entries, LAMBDA entry : Len(entry.files) > 1)

\* minSize: number = 100 * 1024 * 1024
DefaultMinSize == 104857600

findLargeFiles(forest, minSize) ==
    LET size(id) == forest.items[id].size
    IN  SortDescending(SelectSeq(Preorder(forest, forest.roots),
                                 LAMBDA id : /\ forest.items[id].type = "file"
                                             /\ forest.items[id].size >= minSize),
                       size)

\* days: number = 7
DefaultDays == 7

\* cutoffDate is the day of new Date() less the given number of days
findRecentlyModified(forest, days, now) ==
    LET modified(id) == forest.items[id].modified
    IN  SortDescending(SelectSeq(Preorder(forest, forest.roots),
                                 LAMBDA id : forest.items[id].modified > now - days),
                       modified)

findDeletedFiles(forest) ==
    SelectSeq(Preorder(forest, forest.roots), LAMBDA id : forest.items[id].isDeleted)

\* this.items, had findLargeFiles kept its files in this.items
ItemsKeptLarge(forest) ==
    [forest EXCEPT !.roots = SelectSeq(@, LAMBDA id : /\ forest.items[id].type = "file"
                                                     /\ forest.items[id].size >= DefaultMinSize)]

\* this.items once the four methods have returned: findLargeFiles and
\* findRecentlyModified sort largeFiles and recentFiles, arrays of their
\* own, and no method assigns to an item or to a children array
ItemsAfterAnalysis(forest) == forest

\* no parse is under way
NoParser ==
    /\ buffer = MkImage(0, <<>>)
    /\ pc = "idle"
    /\ superblock = NoSuperblock
    /\ fileRecords = EmptyStore
    /\ scanned = <<>>
    /\ progress = <<>>
    /\ stack = <<>>
    /\ visited = {}
    /\ fileTree = NoTree
    /\ outcome = Pending

(***************************************************************************)
(* Forests and options for the search engine                               *)
(***************************************************************************)
Item(id, name, type, size, path, children, isDeleted, md5Hash, sha1Hash, modified) ==
    [id |-> ToString(id), name |-> name, type |-> type, size |-> size, path |-> path,
     hasChildren |-> type = "directory", children |-> children, fileId |-> id,
     isDeleted |-> isDeleted, md5Hash |-> md5Hash, sha1Hash |-> sha1Hash,
     modified |-> modified]

\* what parseImage returns for a buffer without signature: the sample tree,
\* its hashes still undefined
SampleForest == buildFileTree(generateMockFileSystem(EmptyStore))

\* the forest with every item modified on the given day
Dated(forest, day) ==
    [roots |-> forest.roots,
     items |-> [id \in DOMAIN forest.items |-> forest.items[id] @@ [modified |-> day]]]

\* a directory "a" holding the files "aaaa", "a" and the deleted "b.txt",
\* with the hashes calculateHashes gives their identifiers
HashedForest ==
    [roots |-> <<1>>,
     items |-> <<
        Item(1, "a", "directory", 0, "/a", <<2, 3, 4>>, FALSE, Undefined, Undefined, 1),
        Item(2, "aaaa", "file", 7, "/a/aaaa", <<>>, FALSE,
             generateMockHash("md5", 2), generateMockHash("sha1", 2), 1),
        Item(3, "a", "file", 7, "/a/a", <<>>, FALSE,
             generateMockHash("md5", 3), generateMockHash("sha1", 3), 2),
        Item(4, "b.txt", "file", 9000, "/a/b.txt", <<>>, TRUE,
             generateMockHash("md5", 4), Undefined, 3) >>]

\* two roots: the file "A" and the directory "b-a" holding the file "a_a"
FlatForest ==
    [roots |-> <<1, 2>>,
     items |-> <<
        Item(1, "A", "file", 5, "/A", <<>>, FALSE, Undefined, Undefined, 1),
        Item(2, "b-a", "directory", 0, "/b-a", <<3>>, TRUE, Undefined, Undefined, 2),
        Item(3, "a_a", "file", 0, "/b-a/a_a", <<>>, FALSE,
             generateMockHash("md5", 3), generateMockHash("sha1", 3), 3) >>]

\* a directory that carries the MD5 of two of the files below it, a file
\* without hashes, and a root file with an MD5 of its own; two files reach
\* the default minimum of findLargeFiles and two items are older than a week
DuplicatesForest ==
    [roots |-> <<1, 6>>,
     items |-> <<
        Item(1, "d", "directory", 0, "/d", <<2, 3, 4>>, FALSE,
             generateMockHash("md5", 2), Undefined, 1),
        Item(2, "x", "file", 104857600, "/d/x", <<>>, FALSE,
             generateMockHash("md5", 2), generateMockHash("sha1", 2), 0 - 9),
        Item(3, "y", "file", 104857599, "/d/y", <<>>, FALSE, Undefined, Undefined, 1),
        Item(4, "s", "directory", 0, "/d/s", <<5>>, TRUE, Undefined, Undefined, 0 - 6),
        Item(5, "x", "file", 209715200, "/d/s/x", <<>>, TRUE,
             generateMockHash("md5", 2), generateMockHash("sha1", 5), 0),
        Item(6, "k", "file", 3, "/k", <<>>, FALSE,
             generateMockHash("md5", 6), Undefined, 1) >>]

SearchForests == {Dated(SampleForest, 1), HashedForest, FlatForest, DuplicatesForest}

LiteralQueries == {"a", "A", "aa", "b.txt", "deleted_file.txt", "dll"}
\* patterns that match at least one character each time
PatternQueries == {"a", "A.", "(", "a(a)", "a*a"}
HashQueries == {"EF01", "zz"}

\* filters on top of the default: by extension, by size, by day
FilterChoices ==
    {[DefaultSearchOptions EXCEPT !.fileTypes = {"txt", "dll"}],
     [DefaultSearchOptions EXCEPT !.sizeMin = <<6>>, !.sizeMax = <<5000>>],
     [DefaultSearchOptions EXCEPT !.dateFrom = <<2>>],
     [DefaultSearchOptions EXCEPT !.dateTo = <<2>>]}

SearchOptionChoices ==
    {[DefaultSearchOptions EXCEPT !.query = q, !.caseSensitive = cs, !.searchInPath = sp,
                                  !.includeDeleted = del] :
        q \in LiteralQueries, cs \in BOOLEAN, sp \in BOOLEAN, del \in BOOLEAN}
    \cup
    {[DefaultSearchOptions EXCEPT !.query = q, !.hashSearch = h, !.includeDeleted = del] :
        q \in {"", "a"}, h \in HashQueries, del \in BOOLEAN}
    \cup
    {[f EXCEPT !.query = q, !.includeDeleted = TRUE] :
        f \in FilterChoices, q \in {"a", "dll"}}
    \cup
    {[DefaultSearchOptions EXCEPT !.query = q, !.useRegex = TRUE, !.caseSensitive = cs,
                                  !.searchInPath = sp, !.includeDeleted = TRUE] :
        q \in PatternQueries, cs \in BOOLEAN, sp \in BOOLEAN}
    \cup {DefaultSearchOptions}

\* new ForensicSearchEngine(items) in a freshly opened SearchDialog
SearchInit ==
    /\ NoParser
    /\ NoExportEngine
    /\ items \in SearchForests
    /\ searchIndex = buildSearchIndex(items)
    /\ searchOptions = DefaultSearchOptions
    /\ results = <<>>
    /\ isSearching = FALSE
    /\ timers = <<>>
    /\ advanced = NoAdvancedResults
    /\ regex = NoRegExp

\* SearchDialog: a change of searchOptions runs the search, or clears the
\* results when there is neither a query nor a hash to look for
performSearchAmong(choices) ==
    /\ \E options \in choices :
          /\ searchOptions' = options
          /\ results' = IF options.query # "" \/ options.hashSearch # ""
                        THEN search(items, searchIndex, options)
                        ELSE <<>>
    /\ UNCHANGED <<items, searchIndex, dialogVars, regex, parserVars, exportVars>>

performSearch == performSearchAmong(SearchOptionChoices)

\* SearchDialog: the analysis tab is rendered
getAdvancedSearchResults ==
    /\ advanced' = [state |-> "returned",
                    duplicates |-> findDuplicateFiles(items),
                    largeFiles |-> findLargeFiles(items, DefaultMinSize),
                    recentFiles |-> findRecentlyModified(items, DefaultDays, clock),
                    deletedFiles |-> findDeletedFiles(items)]
    /\ items' = ItemsAfterAnalysis(items)
    /\ UNCHANGED <<searchIndex, searchOptions, results, isSearching, timers, regex,
                   parserVars, exportVars>>

SearchNext == performSearch \/ getAdvancedSearchResults

SearchSpec == SearchInit /\ [][SearchNext]_vars

(***************************************************************************)
(* SearchDialog, one handler, effect or timer at a time: performSearch     *)
(* waits 100 ms before it searches, with the searchOptions it was created  *)
(* for, and nothing cancels a call that waits                              *)
(***************************************************************************)
\* the calls of performSearch that may wait for their timer at once
MaxPending == 2

DialogQueries == {"", "a", "dll"}
DialogHashes == {"", "EF01"}
DialogFileTypes == {"dll"}

\* the effect on [searchOptions, performSearch], run after the render that
\* follows setSearchOptions: performSearch up to its await, or setResults([])
searchOptionsEffect(options, shown) ==
    IF options.query # "" \/ options.hashSearch # ""
    THEN /\ Len(timers) < MaxPending
         /\ isSearching' = TRUE
         /\ timers' = Append(timers, options)
         /\ results' = shown
    ELSE /\ results' = <<>>
         /\ UNCHANGED <<isSearching, timers>>

DialogInit ==
    /\ NoParser
    /\ NoExportEngine
    /\ items \in {HashedForest, FlatForest}
    /\ searchIndex = buildSearchIndex(items)
    /\ searchOptions = DefaultSearchOptions
    /\ results = <<>>
    /\ isSearching = FALSE
    /\ timers = <<>>
    /\ advanced = NoAdvancedResults
    /\ regex = NoRegExp

\* updateSearchOption('query', value) and updateSearchOption('hashSearch', value)
updateSearchOption ==
    /\ \E options \in {[searchOptions EXCEPT !.query = q] : q \in DialogQueries}
                     \cup {[searchOptions EXCEPT !.hashSearch = h] : h \in DialogHashes} :
          /\ searchOptions' = options
          /\ searchOptionsEffect(options, results)
    /\ UNCHANGED <<items, searchIndex, advanced, regex, parserVars, exportVars>>

toggleFileType ==
    /\ \E fileType \in DialogFileTypes :
          LET options == [searchOptions EXCEPT
                             !.fileTypes = IF fileType \in @ THEN @ \ {fileType}
                                           ELSE @ \cup {fileType}]
          IN  /\ searchOptions' = options
              /\ searchOptionsEffect(options, results)
    /\ UNCHANGED <<items, searchIndex, advanced, regex, parserVars, exportVars>>

\* clearSearch: the defaults, setResults([]), and then the effect
clearSearch ==
    /\ searchOptions' = DefaultSearchOptions
    /\ searchOptionsEffect(DefaultSearchOptions, <<>>)
    /\ UNCHANGED <<items, searchIndex, advanced, regex, parserVars, exportVars>>

\* performSearch after its await: the oldest timer has fired
performSearchResumes ==
    /\ timers # <<>>
    /\ results' = search(items, searchIndex, Head(timers))
    /\ isSearching' = FALSE
    /\ timers' = Tail(timers)
    /\ UNCHANGED <<items, searchIndex, searchOptions, advanced, regex,
                   parserVars, exportVars>>

DialogNext == updateSearchOption \/ toggleFileType \/ clearSearch \/ performSearchResumes

DialogSpec == DialogInit /\ [][DialogNext]_vars

(***************************************************************************)
(* The match loop of findTextMatches, one regex.exec call at a time        *)
(***************************************************************************)
\* the matches the model tells apart: those pushed after them are not kept
MaxMatches == 3

MatchTexts == {"", "b", "ab", "aab", "Ba"}

\* patterns that match one character or more, patterns that can match no
\* character at all, and one that new RegExp rejects
MatchQueries == {"a", "a.", "a*", "a|", "|b", "b*a*", "a*b", "("}

MatchInit ==
    /\ NoParser
    /\ NoSearchEngine
    /\ NoExportEngine

\* findTextMatches(text, query, true) up to the while loop: the regex is
\* built with lastIndex 0, or new RegExp throws and the literal search is
\* returned instead
findTextMatchesRegex ==
    /\ regex.state # "running"
    /\ \E text \in MatchTexts, query \in MatchQueries :
          regex' = IF RegExpThrows(query)
                   THEN [state |-> "returned", source |-> query, text |-> text,
                         lastIndex |-> 0,
                         matches |-> findTextMatches(text, query, FALSE)]
                   ELSE [state |-> "running", source |-> query, text |-> text,
                         lastIndex |-> 0, matches |-> <<>>]
    /\ UNCHANGED <<items, searchIndex, searchOptions, results, dialogVars,
                   parserVars, exportVars>>

\* one evaluation of the loop condition (match = regex.exec(text)) !== null
\* and, when it holds, one run of the loop body
execLoop ==
    /\ regex.state = "running"
    /\ LET match == exec(regex.text, regex.source, regex.lastIndex)
       IN  regex' = IF match = NoMatch
                    THEN [regex EXCEPT !.state = "returned",
                                       !.lastIndex = LastIndexAfter(match)]
                    ELSE [regex EXCEPT
                             !.lastIndex = LastIndexAfter(match),
                             !.matches =
                                 IF Len(regex.matches) < MaxMatches
                                 THEN Append(regex.matches,
                                             [start |-> match.index, end |-> match.end])
                                 ELSE regex.matches]
    /\ UNCHANGED <<items, searchIndex, searchOptions, results, dialogVars,
                   parserVars, exportVars>>

MatchNext == findTextMatchesRegex \/ execLoop

MatchSpec == MatchInit /\ [][MatchNext]_vars

(***************************************************************************)
(* Export engine (src/unnamed/part_002, ForensicExportEngine). Text is     *)
(* kept as the sequence of pieces the code joins or appends; a date is a   *)
(* day of January 2024, at noon UTC.                                       *)
(***************************************************************************)
\* the text with every character that table names replaced by its entry
RECURSIVE MapChars(_, _)
MapChars(text, table) ==
    IF Len(text) = 0 THEN ""
    ELSE IF Len(text) = 1 THEN (IF text \in DOMAIN table THEN table[text] ELSE text)
    ELSE MapChars(SubSeq(text, 1, Len(text) \div 2), table)
         \o MapChars(SubSeq(text, Len(text) \div 2 + 1, Len(text)), table)

\* the pieces joined by the separator
RECURSIVE Join(_, _, _, _)
Join(pieces, separator, lo, hi) ==
    IF lo > hi THEN ""
    ELSE IF lo = hi THEN pieces[lo]
    ELSE Join(pieces, separator, lo, (lo + hi) \div 2) \o separator
         \o Join(pieces, separator, (lo + hi) \div 2 + 1, hi)

JoinAll(pieces, separator) == Join(pieces, separator, 1, Len(pieces))

\* Date.prototype.toISOString
toISOString(day) == "2024-01-0" \o ToString(day) \o "T12:00:00.000Z"

\* formatTimestamp: toLocaleString('en-US', two-digit fields, hour12: false)
formatTimestamp(day) == "01/0" \o ToString(day) \o "/2024, 12:00:00"

RECURSIVE Power(_, _)
Power(base, exponent) == IF exponent = 0 THEN 1 ELSE base * Power(base, exponent - 1)

\* formatFileSize of num / den bytes (den = 1 but for an average):
\* Math.floor(Math.log(bytes) / Math.log(1024)) picks the unit, which is
\* sizes[-1] below one byte; toFixed(2) rounds to hundredths and
\* parseFloat drops the trailing zeros
FormatBytes(num, den) ==
    IF num = 0 THEN "0 B"
    ELSE LET i == IF num < den THEN -1
                  ELSE CHOOSE e \in 0..4 :
                          /\ den * Power(1024, e) <= num
                          /\ (e = 4 \/ num < den * Power(1024, e + 1))
             scaled == IF i = -1 THEN 1024 * num ELSE num
             unit == IF i = -1 THEN den ELSE den * Power(1024, i)
             hundredths == (2 * 100 * scaled + unit) \div (2 * unit)
             whole == ToString(hundredths \div 100)
             fraction == hundredths % 100
             digits == IF fraction = 0 THEN ""
                       ELSE IF fraction % 10 = 0 THEN "." \o ToString(fraction \div 10)
                       ELSE IF fraction < 10 THEN ".0" \o ToString(fraction)
                       ELSE "." \o ToString(fraction)
         IN  whole \o digits \o " "
             \o (IF i = -1 THEN "undefined" ELSE <<"B", "KB", "MB", "GB", "TB">>[i + 1])

formatFileSize(bytes) == FormatBytes(bytes, 1)

\* the number a DataView read gave for the attributes
AttributesNumber(attributes) ==
    attributes[1] + 256 * attributes[2] + 65536 * attributes[3] + 16777216 * attributes[4]

\* countItems: every item, whatever the options
RECURSIVE countItems(_, _)
countItems(forest, ids) ==
    IF Len(ids) = 0 THEN 0
    ELSE 1 + countItems(forest, forest.items[Head(ids)].children)
         + countItems(forest, Tail(ids))

\* options.includeDeleted || !item.metadata?.isDeleted
\* item.metadata is there: buildFileTree gives every item one; an item that
\* comes without (metadata is optional in FileSystemItem) says so in a field
\* of that name, and reads as neither deleted nor hashed
HasMetadata(item) == ~("metadata" \in DOMAIN item /\ item.metadata = FALSE)

Exportable(item, options) == options.includeDeleted \/ ~item.isDeleted

\* a flattening that leaves out what is below an item that does not pass
RECURSIVE flattenItemsPruned(_, _, _)
flattenItemsPruned(forest, ids, options) ==
    FlattenAll([k \in DOMAIN ids |->
                   IF Exportable(forest.items[ids[k]], options)
                   THEN <<ids[k]>>
                        \o flattenItemsPruned(forest, forest.items[ids[k]].children, options)
                   ELSE <<>>])

\* flattenItems: the items that pass, each before its children; the
\* children of an item that does not pass are still visited
flattenItems(forest, ids, options) ==
    SelectSeq(Preorder(forest, ids), LAMBDA id : Exportable(forest.items[id], options))

(***************************************************************************)
(* JSON. A value to serialise is kept as the lines JSON.stringify(value,   *)
(* null, 2) writes for it, the first of them without indentation; an       *)
(* object is made of its <<key, value>> pairs, and a property whose value  *)
(* is undefined is left out, as JSON.stringify leaves it out.              *)
(***************************************************************************)
\* a string between quotes, as JSON writes it
Quoted(text) ==
    "\"" \o MapChars(text, [c \in {"\"", "\\", "\n"} |->
                              CASE c = "\"" -> "\\\"" [] c = "\\" -> "\\\\" [] c = "\n" -> "\\n"])
         \o "\""

Spaces(n) == SubSeq("                                                  ", 1, n)

\* the lines of an array or an object: every member two spaces in, behind
\* its key, and a comma after every member but the last
Stringify(open, close, keys, values) ==
    IF Len(values) = 0 THEN <<open \o close>>
    ELSE <<open>>
         \o FlattenAll([k \in DOMAIN values |->
               [n \in DOMAIN values[k] |->
                   "  " \o (IF n = 1 THEN keys[k] ELSE "") \o values[k][n]
                   \o (IF n = Len(values[k]) /\ k < Len(values) THEN "," ELSE "")]])
         \o <<close>>

Str(text) == <<Quoted(text)>>
Num(n) == <<ToString(n)>>
Bool(b) == <<IF b THEN "true" ELSE "false">>
Arr(values) == Stringify("[", "]", [k \in DOMAIN values |-> ""], values)
Obj(pairs) ==
    Stringify("{", "}", [k \in DOMAIN pairs |-> Quoted(pairs[k][1]) \o ": "],
              [k \in DOMAIN pairs |-> pairs[k][2]])

\* a property, or nothing when its value is undefined
Property(key, text) == IF text = Undefined THEN <<>> ELSE << <<key, Str(text)>> >>

RefsJson(item) ==
    Obj(<< <<"blockNumber", Num(item.blockNumber)>>, <<"entryIndex", Num(item.entryIndex)>>,
           <<"btreeLevel", Num(item.btreeLevel)>> >>)

\* processItems
RECURSIVE processItems(_, _, _)
processItems(forest, ids, options) ==
    LET kept == SelectSeq(ids, LAMBDA id : Exportable(forest.items[id], options))
        processedItem(item) ==
            Obj(<< <<"id", Str(item.id)>>, <<"name", Str(item.name)>>,
                   <<"type", Str(item.type)>>, <<"size", Num(item.size)>>,
                   <<"sizeFormatted", Str(formatFileSize(item.size))>>,
                   <<"path", Str(item.path)>>,
                   <<"created", Str(toISOString(item.created))>>,
                   <<"modified", Str(toISOString(item.modified))>>,
                   <<"accessed", Str(toISOString(item.accessed))>> >>
                \o (IF options.includeMetadata /\ HasMetadata(item)
                    THEN << <<"metadata",
                              Obj(<< <<"fileId", Num(item.fileId)>>,
                                     <<"parentId", Num(item.parentId)>>,
                                     <<"attributes", Num(AttributesNumber(item.attributes))>>,
                                     <<"isDeleted", Bool(item.isDeleted)>>,
                                     <<"refs", RefsJson(item)>> >>)>> >>
                    ELSE <<>>)
                \o (IF options.includeHashes /\ HasMetadata(item)
                    THEN << <<"hashes", Obj(Property("md5", item.md5Hash)
                                            \o Property("sha1", item.sha1Hash))>> >>
                    ELSE <<>>)
                \o (IF Len(item.children) > 0
                    THEN << <<"children",
                              Arr(processItems(forest, item.children, options))>> >>
                    ELSE <<>>))
    IN  [k \in DOMAIN kept |-> processedItem(forest.items[kept[k]])]

\* a FileSystemItem as JSON.stringify writes it: all its own properties,
\* its children and its metadata with it
RECURSIVE ItemJson(_, _)
ItemJson(forest, id) ==
    LET item == forest.items[id]
    IN  Obj(<< <<"id", Str(item.id)>>, <<"name", Str(item.name)>>,
               <<"type", Str(item.type)>>, <<"size", Num(item.size)>>,
               <<"created", Str(toISOString(item.created))>>,
               <<"modified", Str(toISOString(item.modified))>>,
               <<"accessed", Str(toISOString(item.accessed))>>,
               <<"path", Str(item.path)>> >>
            \o (IF item.hasChildren
                THEN << <<"children",
                          Arr([k \in DOMAIN item.children |->
                                  ItemJson(forest, item.children[k])])>> >>
                ELSE <<>>)
            \o (IF HasMetadata(item)
                THEN << <<"metadata",
                          Obj(<< <<"fileId", Num(item.fileId)>>,
                                 <<"parentId", Num(item.parentId)>>,
                                 <<"attributes", Num(AttributesNumber(item.attributes))>>,
                                 <<"isDeleted", Bool(item.isDeleted)>> >>
                              \o Property("md5Hash", item.md5Hash)
                              \o Property("sha1Hash", item.sha1Hash)
                              \o << <<"refs", RefsJson(item)>> >>)>> >>
                ELSE <<>>))

OptionsJson(options) ==
    Obj(<< <<"format", Str(options.format)>>,
           <<"includeMetadata", Bool(options.includeMetadata)>>,
           <<"includeDeleted", Bool(options.includeDeleted)>>,
           <<"includeHashes", Bool(options.includeHashes)>>,
           <<"flattenStructure", Bool(options.flattenStructure)>> >>)

\* the exportData object of exportToJson
ExportData(forest, options, now) ==
    Obj(<< <<"exportInfo",
             Obj(<< <<"timestamp", Str(toISOString(now))>>, <<"format", Str("json")>>,
                    <<"options", OptionsJson(options)>>,
                    <<"totalItems", Num(countItems(forest, forest.roots))>> >>)>>,
           <<"fileSystem",
             Arr(IF options.flattenStructure
                 THEN LET flat == flattenItems(forest, forest.roots, options)
                      IN  [k \in DOMAIN flat |-> ItemJson(forest, flat[k])]
                 ELSE processItems(forest, forest.roots, options))>> >>)

\* exportToJson: the lines of JSON.stringify(exportData, null, 2)
exportToJson(forest, options, now) == ExportData(forest, options, now)

(***************************************************************************)
(* CSV                                                                     *)
(***************************************************************************)
escapeCsvValue(value) ==
    IF StringIncludes(value, ",") \/ StringIncludes(value, "\"") \/ StringIncludes(value, "\n")
    THEN "\"" \o MapChars(value, [c \in {"\""} |-> "\"\""]) \o "\""
    ELSE value

\* value || ''
OrEmpty(text) == IF Truthy(text) THEN text ELSE ""

\* exportToCsv: csvRows, which the code joins with '\n'
exportToCsv(forest, options) ==
    LET flatItems == flattenItems(forest, forest.roots, options)
        headers == <<"Path", "Name", "Type", "Size", "Size (Formatted)",
                     "Created", "Modified", "Accessed">>
                   \o (IF options.includeMetadata
                       THEN <<"File ID", "Parent ID", "Attributes", "Is Deleted",
                              "Block Number", "Entry Index", "B-Tree Level">>
                       ELSE <<>>)
                   \o (IF options.includeHashes THEN <<"MD5 Hash", "SHA1 Hash">> ELSE <<>>)
        row(item) ==
            << escapeCsvValue(item.path), escapeCsvValue(item.name), item.type,
               ToString(item.size), escapeCsvValue(formatFileSize(item.size)),
               escapeCsvValue(formatTimestamp(item.created)),
               escapeCsvValue(formatTimestamp(item.modified)),
               escapeCsvValue(formatTimestamp(item.accessed)) >>
            \o (IF options.includeMetadata /\ HasMetadata(item)
                THEN << ToString(item.fileId), ToString(item.parentId),
                        ToString(AttributesNumber(item.attributes)),
                        IF item.isDeleted THEN "true" ELSE "false",
                        ToString(item.blockNumber), ToString(item.entryIndex),
                        ToString(item.btreeLevel) >>
                ELSE <<>>)
            \o (IF options.includeHashes
                THEN <<OrEmpty(item.md5Hash), OrEmpty(item.sha1Hash)>>
                ELSE <<>>)
    IN  <<JoinAll(headers, ",")>>
        \o [k \in DOMAIN flatItems |-> JoinAll(row(forest.items[flatItems[k]]), ",")]

(***************************************************************************)
(* XML: one piece for every string the code appends                        *)
(***************************************************************************)
RECURSIVE itemToXml(_, _, _, _)
itemToXml(forest, id, options, depth) ==
    LET item == forest.items[id]
        indent == Spaces(2 * depth)
        isDeleted == IF item.isDeleted THEN " deleted=\"true\"" ELSE ""
    IN  << indent \o "<item type=\"" \o item.type \o "\" size=\"" \o ToString(item.size)
               \o "\"" \o isDeleted \o ">\n",
           indent \o "  <name><![CDATA[" \o item.name \o "]]></name>\n",
           indent \o "  <path><![CDATA[" \o item.path \o "]]></path>\n",
           indent \o "  <created>" \o toISOString(item.created) \o "</created>\n",
           indent \o "  <modified>" \o toISOString(item.modified) \o "</modified>\n",
           indent \o "  <accessed>" \o toISOString(item.accessed) \o "</accessed>\n" >>
        \o (IF options.includeMetadata /\ HasMetadata(item)
            THEN << indent \o "  <metadata>\n",
                    indent \o "    <fileId>" \o ToString(item.fileId) \o "</fileId>\n",
                    indent \o "    <parentId>" \o ToString(item.parentId) \o "</parentId>\n",
                    indent \o "    <attributes>" \o ToString(AttributesNumber(item.attributes))
                        \o "</attributes>\n",
                    indent \o "    <refs>\n",
                    indent \o "      <blockNumber>" \o ToString(item.blockNumber)
                        \o "</blockNumber>\n",
                    indent \o "      <entryIndex>" \o ToString(item.entryIndex)
                        \o "</entryIndex>\n",
                    indent \o "      <btreeLevel>" \o ToString(item.btreeLevel)
                        \o "</btreeLevel>\n",
                    indent \o "    </refs>\n",
                    indent \o "  </metadata>\n" >>
            ELSE <<>>)
        \o (IF options.includeHashes /\ HasMetadata(item)
            THEN << indent \o "  <hashes>\n" >>
                 \o (IF Truthy(item.md5Hash)
                     THEN << indent \o "    <md5>" \o item.md5Hash \o "</md5>\n" >> ELSE <<>>)
                 \o (IF Truthy(item.sha1Hash)
                     THEN << indent \o "    <sha1>" \o item.sha1Hash \o "</sha1>\n" >> ELSE <<>>)
                 \o << indent \o "  </hashes>\n" >>
            ELSE <<>>)
        \o (IF Len(item.children) > 0 /\ ~options.flattenStructure
            THEN << indent \o "  <children>\n" >>
                 \o FlattenAll([k \in DOMAIN item.children |->
                                   itemToXml(forest, item.children[k], options, depth + 2)])
                 \o << indent \o "  </children>\n" >>
            ELSE <<>>)
        \o << indent \o "</item>\n" >>

exportToXml(forest, options, now) ==
    LET written == IF options.flattenStructure
                   THEN flattenItems(forest, forest.roots, options)
                   ELSE forest.roots
    IN  << "<?xml version=\"1.0\" encoding=\"UTF-8\"?>\n"
           \o "<export timestamp=\"" \o toISOString(now) \o "\" format=\"xml\" totalItems=\""
           \o ToString(countItems(forest, forest.roots)) \o "\">\n",
           "<fileSystem>\n" >>
        \o FlattenAll([k \in DOMAIN written |-> itemToXml(forest, written[k], options, 1)])
        \o << "</fileSystem>\n</export>" >>

(***************************************************************************)
(* HTML: one piece for every string the code appends                       *)
(***************************************************************************)
\* what innerHTML gives for a text node
escapeHtml(text) ==
    MapChars(text, [c \in {"&", "<", ">"} |->
                       CASE c = "&" -> "&amp;" [] c = "<" -> "&lt;" [] c = ">" -> "&gt;"])

\* the sum of numbers[lo..hi]
RECURSIVE TotalOf(_, _, _)
TotalOf(numbers, lo, hi) ==
    IF lo > hi THEN 0
    ELSE IF lo = hi THEN numbers[lo]
    ELSE TotalOf(numbers, lo, (lo + hi) \div 2) + TotalOf(numbers, (lo + hi) \div 2 + 1, hi)

Total(numbers) == TotalOf(numbers, 1, Len(numbers))

\* generateStatistics, for a forest that is not empty: the entries in the
\* order Object.entries gives them
generateStatistics(forest) ==
    LET flatItems == flattenItems(forest, forest.roots, [includeDeleted |-> TRUE])
        files == SelectSeq(flatItems, LAMBDA id : forest.items[id].type = "file")
        sizes(ids) == [k \in DOMAIN ids |-> forest.items[ids[k]].size]
        largest == CHOOSE m \in {forest.items[flatItems[k]].size : k \in DOMAIN flatItems} :
                       \A k \in DOMAIN flatItems : forest.items[flatItems[k]].size <= m
    IN  << <<"Total Files", ToString(Len(files))>>,
           <<"Total Directories",
             ToString(Len(SelectSeq(flatItems,
                                    LAMBDA id : forest.items[id].type = "directory")))>>,
           <<"Deleted Items",
             ToString(Len(SelectSeq(flatItems, LAMBDA id : forest.items[id].isDeleted)))>>,
           <<"Total Size", formatFileSize(Total(sizes(flatItems)))>>,
           <<"Largest File", formatFileSize(largest)>>,
           <<"Average File Size", FormatBytes(Total(sizes(files)), Len(files))>> >>

generateHtmlTable(forest, options) ==
    LET flatItems == flattenItems(forest, forest.roots, options)
        tableRow(item) ==
            << "<tr" \o (IF item.isDeleted THEN " class=\"deleted\"" ELSE "") \o ">",
               "<td>" \o escapeHtml(item.path) \o "</td>",
               "<td>" \o escapeHtml(item.name) \o "</td>",
               "<td>" \o item.type \o "</td>",
               "<td>" \o formatFileSize(item.size) \o "</td>",
               "<td>" \o formatTimestamp(item.modified) \o "</td>" >>
            \o (IF options.includeHashes
                THEN <<"<td class=\"hash\">" \o OrEmpty(item.md5Hash) \o "</td>">>
                ELSE <<>>)
            \o <<"</tr>">>
    IN  << "<div class=\"file-tree\"><table><thead><tr>",
           "<th>Path</th><th>Name</th><th>Type</th><th>Size</th><th>Modified</th>" >>
        \o (IF options.includeHashes THEN <<"<th>MD5 Hash</th>">> ELSE <<>>)
        \o <<"</tr></thead><tbody>">>
        \o FlattenAll([k \in DOMAIN flatItems |-> tableRow(forest.items[flatItems[k]])])
        \o <<"</tbody></table></div>">>

RECURSIVE renderItem(_, _, _)
renderItem(forest, id, depth) ==
    LET item == forest.items[id]
        deletedClass == IF item.isDeleted THEN " deleted" ELSE ""
        typeClass == IF item.type = "directory" THEN " directory" ELSE ""
    IN  << Spaces(2 * depth) \o "<div class=\"file-item" \o typeClass \o deletedClass \o "\">",
           "<div class=\"file-name\">" \o escapeHtml(item.name) \o "</div>",
           "<div class=\"file-details\">" \o formatFileSize(item.size) \o " - "
               \o formatTimestamp(item.modified) \o "</div>",
           "</div>" >>
        \o FlattenAll([k \in DOMAIN item.children |->
                          renderItem(forest, item.children[k], depth + 1)])

generateHtmlTree(forest, options) ==
    <<"<div class=\"file-tree\">">>
    \o FlattenAll([k \in DOMAIN forest.roots |-> renderItem(forest, forest.roots[k], 0)])
    \o <<"</div>">>

\* the template literal that opens the page
HtmlHead(timestamp, totalItems) ==
       "<!DOCTYPE html>\n"
       \o "<html lang=\"en\">\n"
       \o "<head>\n"
       \o "    <meta charset=\"UTF-8\">\n"
       \o "    <meta name=\"viewport\" content=\"width=device-width, initial-scale=1.0\">\n"
       \o "    <title>ReFS Forensic Export - " \o timestamp \o "</title>\n"
       \o "    <style>\n"
       \o "        body { font-family: 'Segoe UI', Tahoma, Geneva, Verdana, sans-serif; margin: 20px; background: #f5f5f5; }\n"
       \o "        .header { background: #2B5797; color: white; padding: 20px; border-radius: 8px; margin-bottom: 20px; }\n"
       \o "        .stats { display: grid; grid-template-columns: repeat(auto-fit, minmax(200px, 1fr)); gap: 15px; margin-bottom: 20px; }\n"
       \o "        .stat-card { background: white; padding: 15px; border-radius: 8px; box-shadow: 0 2px 4px rgba(0,0,0,0.1); }\n"
       \o "        .file-tree { background: white; border-radius: 8px; box-shadow: 0 2px 4px rgba(0,0,0,0.1); overflow: hidden; }\n"
       \o "        .file-item { padding: 8px 15px; border-bottom: 1px solid #eee; display: flex; justify-content: space-between; align-items: center; }\n"
       \o "        .file-item:hover { background: #f8f9fa; }\n"
       \o "        .file-name { font-weight: 500; }\n"
       \o "        .file-details { color: #666; font-size: 0.9em; }\n"
       \o "        .directory { background: #f8f9fa; font-weight: 600; }\n"
       \o "        .deleted { color: #dc3545; text-decoration: line-through; }\n"
       \o "        .metadata { font-family: 'Consolas', monospace; font-size: 0.8em; color: #666; margin-top: 5px; }\n"
       \o "        table { width: 100%; border-collapse: collapse; background: white; }\n"
       \o "        th, td { padding: 8px 12px; text-align: left; border-bottom: 1px solid #ddd; }\n"
       \o "        th { background: #2B5797; color: white; font-weight: 600; }\n"
       \o "        .hash { font-family: 'Consolas', monospace; font-size: 0.8em; }\n"
       \o "    </style>\n"
       \o "</head>\n"
       \o "<body>\n"
       \o "    <div class=\"header\">\n"
       \o "        <h1>ReFS Forensic Analysis Export</h1>\n"
       \o "        <p>Generated: " \o timestamp \o "</p>\n"
       \o "        <p>Total Items: " \o ToString(totalItems) \o "</p>\n"
       \o "    </div>"

exportToHtml(forest, options, now) ==
    LET stats == generateStatistics(forest)
    IN  << HtmlHead(toISOString(now), countItems(forest, forest.roots)),
           "<div class=\"stats\">" >>
        \o [k \in DOMAIN stats |->
               "<div class=\"stat-card\"><h3>" \o stats[k][1] \o "</h3><p>" \o stats[k][2]
               \o "</p></div>"]
        \o <<"</div>">>
        \o (IF options.flattenStructure THEN generateHtmlTable(forest, options)
            ELSE generateHtmlTree(forest, options))
        \o <<"</body></html>">>

(***************************************************************************)
(* export                                                                  *)
(***************************************************************************)
\* the text a sequence of pieces stands for
Text(data) == JoinAll(data.pieces, data.separator)

\* new Blob([data]).size, every character of the model being one byte
BlobSize(data) ==
    Total([k \in DOMAIN data.pieces |-> Len(data.pieces[k])])
    + Len(data.separator) * (IF Len(data.pieces) = 0 THEN 0 ELSE Len(data.pieces) - 1)

\* an ExportResult
Returned(pieces, separator, filename, mimeType) ==
    [state |-> "returned", data |-> [pieces |-> pieces, separator |-> separator],
     filename |-> filename, mimeType |-> mimeType,
     size |-> BlobSize([pieces |-> pieces, separator |-> separator])]

Threw(message) == [state |-> "threw", message |-> message]

\* a default branch that hands out an empty artifact
exportWithFallback(forest, options, now) ==
    LET timestamp == MapChars(toISOString(now), [c \in {":", "."} |-> "-"])
    IN  CASE options.format = "json" ->
               Returned(exportToJson(forest, options, now), "\n",
                        "refs-export-" \o timestamp \o ".json", "application/json")
          [] options.format = "csv" ->
               Returned(exportToCsv(forest, options), "\n",
                        "refs-export-" \o timestamp \o ".csv", "text/csv")
          [] options.format = "xml" ->
               Returned(exportToXml(forest, options, now), "",
                        "refs-export-" \o timestamp \o ".xml", "application/xml")
          [] options.format = "html" ->
               Returned(exportToHtml(forest, options, now), "",
                        "refs-export-" \o timestamp \o ".html", "text/html")
          [] OTHER -> Returned(<<>>, "", "refs-export-" \o timestamp, "text/plain")

\* export: what the call hands back, or the error it throws
exportOutcome(forest, options, now) ==
    LET timestamp == MapChars(toISOString(now), [c \in {":", "."} |-> "-"])
    IN  CASE options.format = "json" ->
               Returned(exportToJson(forest, options, now), "\n",
                        "refs-export-" \o timestamp \o ".json", "application/json")
          [] options.format = "csv" ->
               Returned(exportToCsv(forest, options), "\n",
                        "refs-export-" \o timestamp \o ".csv", "text/csv")
          [] options.format = "xml" ->
               Returned(exportToXml(forest, options, now), "",
                        "refs-export-" \o timestamp \o ".xml", "application/xml")
          [] options.format = "html" ->
               Returned(exportToHtml(forest, options, now), "",
                        "refs-export-" \o timestamp \o ".html", "text/html")
          [] OTHER -> Threw("Unsupported export format: " \o options.format)

(***************************************************************************)
(* Forests and options for the export engine                               *)
(***************************************************************************)
MaxClock == 3

\* a record with the hashes calculateHashes would have stored in it
ExportRecord(id, parent, name, isDir, size, deleted, md5, sha1) ==
    [MockRecord(id, parent, name, isDir, size, deleted)
        EXCEPT !.md5Hash = IF md5 THEN generateMockHash("md5", id) ELSE Undefined,
               !.sha1Hash = IF sha1 THEN generateMockHash("sha1", id) ELSE Undefined]

\* what buildFileTree makes of the records, each item created on day 1,
\* modified on day 2 and accessed on day 3
ForestOf(records) ==
    LET forest == buildFileTree(SetAll(EmptyStore, records, Len(records)))
    IN  [roots |-> forest.roots,
         items |-> [id \in DOMAIN forest.items |->
                       forest.items[id] @@ [created |-> 1, modified |-> 2, accessed |-> 3]]]

\* a directory with a file and a deleted directory that holds a live file
BranchForest ==
    ForestOf(<< ExportRecord(1, 0, "docs", TRUE, 0, FALSE, FALSE, FALSE),
                ExportRecord(2, 1, "a,b.txt", FALSE, 2048, FALSE, TRUE, TRUE),
                ExportRecord(3, 1, "old", TRUE, 0, TRUE, FALSE, FALSE),
                ExportRecord(4, 3, "keep.txt", FALSE, 9000, FALSE, TRUE, FALSE) >>)

\* a file whose name holds a line break, and a deleted file
LineBreakForest ==
    ForestOf(<< ExportRecord(1, 0, "x\ny", FALSE, 1536, FALSE, FALSE, FALSE),
                ExportRecord(2, 0, "q<&\"", FALSE, 1, TRUE, TRUE, TRUE) >>)

\* a file and an empty directory, nothing deleted
PlainForest ==
    ForestOf(<< ExportRecord(1, 0, "f", FALSE, 7, FALSE, TRUE, TRUE),
                ExportRecord(2, 0, "e", TRUE, 0, FALSE, FALSE, FALSE) >>)

\* the file "f" of PlainForest as an item without metadata, and the
\* directory "e" as buildFileTree gives it
BareForest ==
    LET item == PlainForest.items[1]
    IN  [PlainForest EXCEPT
            !.items[1] = [metadata |-> FALSE]
                             @@ [item EXCEPT !.isDeleted = FALSE,
                                             !.md5Hash = Undefined,
                                             !.sha1Hash = Undefined]]

ExportForests == {BranchForest, LineBreakForest, PlainForest, BareForest}

Formats == {"json", "csv", "xml", "html"}

ExportOptionChoices ==
    [format : Formats, includeMetadata : BOOLEAN, includeDeleted : BOOLEAN,
     includeHashes : BOOLEAN, flattenStructure : BOOLEAN]
    \cup {[DefaultExportOptions EXCEPT !.format = tag] : tag \in {"pdf", ""}}

\* an export engine constructed on a forest, nothing else running
ExportInit ==
    /\ NoParser
    /\ NoSearchEngine
    /\ exportItems \in ExportForests
    /\ exportOptions = DefaultExportOptions
    /\ exported = NotExported
    /\ clock = 1

\* a call of ForensicExportEngine.export, a day after the one before
exportAmong(choices) ==
    /\ clock < MaxClock
    /\ \E options \in choices :
          /\ exportOptions' = options
          /\ exported' = exportOutcome(exportItems, options, clock)
    /\ clock' = clock + 1
    /\ UNCHANGED <<exportItems, parserVars, searchVars>>

export == exportAmong(ExportOptionChoices)

ExportNext == export

ExportSpec == ExportInit /\ [][ExportNext]_vars

(***************************************************************************)
(* The tree parseImage returned, handed to a search engine and to an       *)
(* export engine alike                                                     *)
(***************************************************************************)
SnapshotSearchChoices ==
    {[DefaultSearchOptions EXCEPT !.query = "a", !.includeDeleted = TRUE],
     [DefaultSearchOptions EXCEPT !.query = "keep.txt"],
     [DefaultSearchOptions EXCEPT !.query = ".", !.useRegex = TRUE, !.includeDeleted = TRUE],
     [DefaultSearchOptions EXCEPT !.query = "f", !.hashSearch = "EF01"]}

SnapshotExportChoices ==
    {[DefaultExportOptions EXCEPT !.format = format, !.flattenStructure = flat,
                                  !.includeDeleted = flat] :
        format \in Formats, flat \in BOOLEAN}

\* new ForensicSearchEngine(items) and new ForensicExportEngine(items) on the
\* same array of items
SnapshotInit ==
    /\ NoParser
    /\ items \in ExportForests
    /\ searchIndex = buildSearchIndex(items)
    /\ searchOptions = DefaultSearchOptions
    /\ results = <<>>
    /\ isSearching = FALSE
    /\ timers = <<>>
    /\ advanced = NoAdvancedResults
    /\ regex = NoRegExp
    /\ exportItems = items
    /\ exportOptions = DefaultExportOptions
    /\ exported = NotExported
    /\ clock = 1

SnapshotNext ==
    \/ performSearchAmong(SnapshotSearchChoices)
    \/ getAdvancedSearchResults
    \/ exportAmong(SnapshotExportChoices)

SnapshotSpec == SnapshotInit /\ [][SnapshotNext]_vars

(***************************************************************************)
(* Properties of parseImage                                                *)
(***************************************************************************)
Range(f) == {f[i] : i \in DOMAIN f}

Terminated == pc \in {"done", "failed"}

HasSignature(b) ==
    /\ b.len >= superblockOffset + 512
    /\ \/ Includes(readString(b, superblockOffset, 8), ReFS)
       \/ Includes(readString(b, superblockOffset, 8), REFS)

\* the nodes of a forest: what the root list reaches through children
RECURSIVE Closure(_, _)
Closure(tree, S) ==
    LET T == S \cup UNION {Range(tree.items[n].children) : n \in S}
    IN  IF T = S THEN S ELSE Closure(tree, T)

ForestIds(tree) == Closure(tree, Range(tree.roots))

Count(seq, x) == Cardinality({i \in DOMAIN seq : seq[i] = x})

RECURSIVE Sum(_, _)
Sum(f, S) == IF S = {} THEN 0 ELSE LET x == CHOOSE y \in S : TRUE IN f[x] + Sum(f, S \ {x})

\* how often fileId stands in the forest: in the root list and in the
\* children of the nodes of the forest
Occurrences(tree, fileId) ==
    Count(tree.roots, fileId)
    + Sum([n \in ForestIds(tree) |-> Count(tree.items[n].children, fileId)], ForestIds(tree))

\* the forest is the fixed sample of generateMockFileSystem, nothing else
IsSampleForest(tree) ==
    /\ ForestIds(tree) = 1..21
    /\ \A id \in 1..21 :
          /\ tree.items[id].name = ItemName(mockStructure[id])
          /\ tree.items[id].parentId = mockStructure[id].parentId
          /\ tree.items[id].size = mockStructure[id].fileSize
          /\ tree.items[id].type = (IF mockStructure[id].isDirectory THEN "directory" ELSE "file")

\* C1: for every non-empty buffer parseImage completes and returns a forest;
\* no decode overrun reaches the caller as a thrown failure.
C1_NonEmptyNeverRejects == buffer.len > 0 => outcome.state # "rejected"

\* C2: for a buffer of length 0 parseImage fails and returns no tree.
C2_EmptyInputFails ==
    (buffer.len = 0 /\ Terminated) => (outcome.state = "rejected" /\ fileTree = NoTree)

\* C3: for a non-empty buffer without the signature, the forest parseImage
\* returns holds exactly the 21 sample records of generateMockFileSystem.
C3_UnsignedGivesSample ==
    (buffer.len > 0 /\ ~HasSignature(buffer) /\ pc = "done") => IsSampleForest(fileTree)

\* C4: traverseBTree terminates on every index structure, cyclic ones
\* included, and no node is processed at a recursion depth above the cap of 10.
C4_WalkTerminatesWithinCap ==
    /\ [](\A v \in visited : v[2] <= 10)
    /\ (pc = "traverseBTreeNode") ~> (pc \in {"n80", "failed"})

\* a cyclic walk came back to the root block at depth 10 and the walk ended
C4_Witness ==
    /\ pc = "n80"
    /\ <<superblock.rootDirectoryBlock, 10>> \in visited
    /\ <<superblock.rootDirectoryBlock, 0>> \in visited

\* C5: every offset the tree walker reads at is checked against the buffer
\* length first; an offset or extent outside the buffer ends the branch
\* silently, so no read of the walker ever leaves the buffer.
C5_WalkerNeverOverruns == outcome # Rejected("traverseBTree")

\* C6: after buildFileTree every node of the forest has path = parent path
\* + "/" + name (a root: "/" + name), whatever the insertion order.
C6_PathsFollowParents ==
    pc = "done" =>
        /\ \A r \in Range(fileTree.roots) :
              fileTree.items[r].path = "/" \o fileTree.items[r].name
        /\ \A n \in ForestIds(fileTree) : \A c \in Range(fileTree.items[n].children) :
              fileTree.items[c].path
                  = fileTree.items[n].path \o "/" \o fileTree.items[c].name

\* C7: every record of the store appears exactly once in the forest: as a
\* root when its parentId is 0 or names no stored record, else as a child.
C7_EveryRecordOnce ==
    pc = "done" =>
        \A id \in DOMAIN fileRecords.rec :
            /\ Occurrences(fileTree, id) = 1
            /\ (id \in Range(fileTree.roots))
                  <=> (fileRecords.rec[id].parentId = 0
                       \/ ~StoreHas(fileRecords, fileRecords.rec[id].parentId))

\* C8: in the returned forest every file node of non-zero size carries an
\* MD5 string of 32 characters and a SHA1 string of 40, fixed by its identifier.
C8_FileNodesCarryHashes ==
    pc = "done" =>
        \A n \in ForestIds(fileTree) :
            (fileTree.items[n].type = "file" /\ fileTree.items[n].size > 0) =>
                /\ fileTree.items[n].md5Hash = generateMockHash("md5", n)
                /\ fileTree.items[n].sha1Hash = generateMockHash("sha1", n)
                /\ Len(fileTree.items[n].md5Hash) = 32
                /\ Len(fileTree.items[n].sha1Hash) = 40

\* C9: the record store never holds synthetic sample records together with
\* records decoded from the buffer, and neither kind overwrites the other.
C9_SyntheticNeverMixed ==
    /\ ~fileRecords.clobbered
    /\ \A i, j \in DOMAIN fileRecords.rec :
          fileRecords.rec[i].synthetic = fileRecords.rec[j].synthetic

\* the notifications of a complete run, in order
AllNotifications ==
    << <<"Parsing ReFS superblock...", 10>>, <<"Reading metadata table...", 30>>,
       <<"Traversing B+Tree structure...", 50>>, <<"Building file system tree...", 80>>,
       <<"Calculating hashes...", 95>>, <<"Parse complete", 100>> >>

\* how many stages of parseSuperblock, parseMetadataTable, traverseBTree,
\* buildFileTree, calculateHashes have completed
StagesCompleted ==
    CASE pc \in {"n10", "parseSuperblock"} -> 0
      [] pc \in {"n30", "parseMetadataTable"} -> 1
      [] pc \in {"n50", "traverseBTree", "traverseBTreeNode"} -> 2
      [] pc \in {"n80", "buildFileTree"} -> 3
      [] pc \in {"n95", "calculateHashes"} -> 4
      [] OTHER -> 5

\* a stage has been called and has not returned
InStage ==
    pc \in {"parseSuperblock", "parseMetadataTable", "traverseBTree", "traverseBTreeNode",
            "buildFileTree", "calculateHashes"}

\* C10: the notifications come in stage order with the percentages 10, 30,
\* 50, 80, 95, 100, each before its stage starts; 100 comes only after all
\* five stages, and nothing follows it or a thrown failure.
C10_ProgressInStageOrder ==
    /\ [](/\ Len(progress) <= 6
          /\ progress = SubSeq(AllNotifications, 1, Len(progress))
          /\ \A i \in 1..(Len(progress) - 1) : progress[i][2] < progress[i + 1][2]
          /\ InStage => Len(progress) = StagesCompleted + 1
          /\ pc \in {"return", "done"} <=> Len(progress) = 6)
    /\ [][(Terminated \/ Len(progress) = 6) => progress' = progress]_vars

\* a run went through all five stages, notified 100 last and returned
C10_Witness == pc = "done" /\ Len(progress) = 6 /\ progress[6][2] = 100

\* the run took its geometry from createMockSuperblock or holds records of
\* generateMockFileSystem
Degraded ==
    \/ superblock.signature = MockSignature
    \/ \E id \in DOMAIN fileRecords.rec : fileRecords.rec[id].synthetic

Labels(notifications) == [i \in DOMAIN notifications |-> notifications[i][1]]

\* C11: a run that used a synthesized geometry or the synthetic structure
\* generator delivers at least one stage label that says so: its labels
\* differ from those of a run over real geometry and real records.
C11_DegradationIsLabelled ==
    (pc = "done" /\ Degraded) => Labels(progress) # Labels(AllNotifications)

\* C14: parsing 100 zero bytes yields a synthetic forest whose single root
\* is named "" and which holds a deleted node under the $Recycle.Bin directory.
C14_HundredZeroBytes ==
    (buffer = MkImage(100, <<>>) /\ pc = "done") =>
        /\ Len(fileTree.roots) = 1
        /\ fileTree.items[fileTree.roots[1]].name = ""
        /\ \E d \in ForestIds(fileTree) : \E n \in Range(fileTree.items[d].children) :
              /\ fileTree.items[d].name = "$Recycle.Bin"
              /\ fileTree.items[n].isDeleted

(***************************************************************************)
(* Properties of the search engine                                         *)
(***************************************************************************)
\* every item of the forest the engine holds
AllItems == Range(Preorder(items, items.roots))

\* the hash fields of an item that contain the hash substring, whatever the case
HashHits(item, options) ==
    SelectSeq(<<item.md5Hash, item.sha1Hash>>,
              LAMBDA hash : Truthy(hash)
                            /\ StringIncludes(toLowerCase(hash), toLowerCase(options.hashSearch)))

ResultItems == {results[k].item : k \in DOMAIN results}

MatchesOf(result, field) == SelectSeq(result.matches, LAMBDA m : m.field = field)

\* C12: search() with an empty query and a hash substring returns every
\* item of the full tree that passes the filters and has a hash containing
\* the substring, with one hash match for each such hash field.
C12_HashSearchWithoutQuery ==
    (searchOptions.query = "" /\ searchOptions.hashSearch # "") =>
        /\ ResultItems = {id \in AllItems :
                            /\ applyFilters(items.items[id], searchOptions)
                            /\ HashHits(items.items[id], searchOptions) # <<>>}
        /\ \A k \in DOMAIN results :
              LET hits == HashHits(items.items[results[k].item], searchOptions)
                  found == MatchesOf(results[k], "hash")
              IN  [i \in DOMAIN found |-> found[i].value] = hits

\* C13: for a literal query, of two results of the same kind and deleted
\* flag with equal path and hash contributions, the one whose name equals
\* the query (whatever the case) scores strictly higher than the one whose
\* name only contains it.
C13_ExactNameOutranksSubstring ==
    ~searchOptions.useRegex =>
        \A i, j \in DOMAIN results :
            LET a == items.items[results[i].item]
                b == items.items[results[j].item]
                q == toLowerCase(searchOptions.query)
            IN  (/\ a.type = b.type
                 /\ a.isDeleted = b.isDeleted
                 /\ Len(MatchesOf(results[i], "path")) = Len(MatchesOf(results[j], "path"))
                 /\ Len(MatchesOf(results[i], "hash")) = Len(MatchesOf(results[j], "hash"))
                 /\ toLowerCase(a.name) = q
                 /\ toLowerCase(b.name) # q
                 /\ StringIncludes(toLowerCase(b.name), q))
                => results[i].score > results[j].score

\* the sample forest was searched for the name of its deleted file: literal,
\* whatever the case, deleted items included, no other filter
SearchedForDeletedFile ==
    /\ IsSampleForest(items)
    /\ searchOptions.query = "deleted_file.txt"
    /\ ~searchOptions.caseSensitive
    /\ ~searchOptions.useRegex
    /\ searchOptions.includeDeleted
    /\ searchOptions.fileTypes = {}
    /\ searchOptions.sizeMin = Absent /\ searchOptions.sizeMax = Absent
    /\ searchOptions.dateFrom = Absent /\ searchOptions.dateTo = Absent

\* C15: searching the sample forest for deleted_file.txt (literal, whatever
\* the case, includeDeleted) returns exactly one result, the deleted file,
\* with a score of at least 30.
C15_DeletedFileFoundOnce ==
    SearchedForDeletedFile =>
        /\ Len(results) = 1
        /\ items.items[results[1].item].name = "deleted_file.txt"
        /\ items.items[results[1].item].isDeleted
        /\ results[1].score >= 30

\* that search ran, without the path among the fields, and found the file
C15_Witness ==
    /\ SearchedForDeletedFile
    /\ ~searchOptions.searchInPath
    /\ Len(results) = 1
    /\ results[1].score = 31

(***************************************************************************)
(* Properties of the export engine                                         *)
(***************************************************************************)
\* the last call returned an artifact in the given format
Exported(format) == exported.state = "returned" /\ exportOptions.format = format

\* the text without its leading spaces
RECURSIVE TrimStart(_)
TrimStart(text) ==
    IF Len(text) > 0 /\ SubSeq(text, 1, 1) = " " THEN TrimStart(Tail(text)) ELSE text

\* the piece is a line of JSON that opens the property key
IsKeyLine(piece, key) ==
    LET opening == Quoted(key) \o ": "
    IN  /\ Len(TrimStart(piece)) >= Len(opening)
        /\ SubSeq(TrimStart(piece), 1, Len(opening)) = opening

\* how many lines of the JSON text open the property key
KeyLines(data, key) == Cardinality({k \in DOMAIN data.pieces : IsKeyLine(data.pieces[k], key)})

\* C16: in every JSON export, the totalItems of the envelope is the number
\* of nodes written under fileSystem, children of children included (a
\* node, and nothing else, is written with an "id" property)
C16_TotalItemsCountsExportedNodes ==
    Exported("json") =>
        \E k \in DOMAIN exported.data.pieces :
            exported.data.pieces[k]
                = Spaces(4) \o Quoted("totalItems") \o ": "
                  \o ToString(KeyLines(exported.data, "id"))

\* some piece of the text is one of the given pieces
HasPiece(data, pieces) == \E k \in DOMAIN data.pieces : data.pieces[k] \in pieces

\* some piece of the text starts with the given text
HasPieceStarting(data, start) ==
    \E k \in DOMAIN data.pieces :
        /\ Len(data.pieces[k]) >= Len(start)
        /\ SubSeq(data.pieces[k], 1, Len(start)) = start

\* the node is written in the artifact: its path as a JSON property, as the
\* first field of a CSV row, as a path element of XML or a cell of the HTML
\* table, or its name as an entry of the HTML tree
Appears(item, format, data) ==
    CASE format = "json" ->
            \E k \in DOMAIN data.pieces :
                TrimStart(data.pieces[k])
                    \in {Quoted("path") \o ": " \o Quoted(item.path) \o comma :
                            comma \in {"", ","}}
      [] format = "csv" -> HasPieceStarting(data, escapeCsvValue(item.path) \o ",")
      [] format = "xml" ->
            \E k \in DOMAIN data.pieces :
                TrimStart(data.pieces[k]) = "<path><![CDATA[" \o item.path \o "]]></path>\n"
      [] format = "html" ->
            HasPiece(data, {"<td>" \o escapeHtml(item.path) \o "</td>",
                            "<div class=\"file-name\">" \o escapeHtml(item.name) \o "</div>"})

\* C17: in every format and in both modes, an artifact made with
\* includeDeleted = false shows no deleted node, and one made with
\* includeDeleted = true shows every node
C17_DeletedNodesFollowTheToggle ==
    exported.state = "returned" =>
        \A id \in DOMAIN exportItems.items :
            LET item == exportItems.items[id]
                shown == Appears(item, exportOptions.format, exported.data)
            IN  /\ (~exportOptions.includeDeleted /\ item.isDeleted) => ~shown
                /\ exportOptions.includeDeleted => shown

\* the piece, without its indentation, starts with the given text
Opens(piece, start) ==
    /\ Len(TrimStart(piece)) >= Len(start)
    /\ SubSeq(TrimStart(piece), 1, Len(start)) = start

\* the artifact holds a metadata block: a "metadata" property in JSON, the
\* metadata columns in CSV, a metadata element in XML
MetadataWritten(format, data) ==
    CASE format = "json" -> KeyLines(data, "metadata") > 0
      [] format = "csv" -> StringIncludes(data.pieces[1], ",File ID,")
      [] format = "xml" -> \E k \in DOMAIN data.pieces : Opens(data.pieces[k], "<metadata>")
      [] format = "html" -> FALSE

\* the artifact holds hashes: a hash property in JSON, the hash columns in
\* CSV, a hashes element in XML, the hash column of the HTML table
HashesWritten(format, data) ==
    CASE format = "json" ->
            KeyLines(data, "hashes") + KeyLines(data, "md5Hash") + KeyLines(data, "sha1Hash") > 0
      [] format = "csv" -> StringIncludes(data.pieces[1], ",MD5 Hash,SHA1 Hash")
      [] format = "xml" -> \E k \in DOMAIN data.pieces : Opens(data.pieces[k], "<hashes>")
      [] format = "html" -> HasPiece(data, {"<th>MD5 Hash</th>"})

\* C18: in every format and in both modes, an artifact holds metadata only
\* if includeMetadata was true and hashes only if includeHashes was true
C18_MetadataAndHashesFollowTheirToggles ==
    exported.state = "returned" =>
        /\ MetadataWritten(exportOptions.format, exported.data) => exportOptions.includeMetadata
        /\ HashesWritten(exportOptions.format, exported.data) => exportOptions.includeHashes

\* the last call returned a CSV artifact without the optional columns
PlainCsv ==
    Exported("csv") /\ ~exportOptions.includeMetadata /\ ~exportOptions.includeHashes

\* the items a flat export holds: the nodes of the forest in pre-order,
\* without the deleted ones unless includeDeleted is set
ExportedIds ==
    SelectSeq(Preorder(exportItems, exportItems.roots),
              LAMBDA id : exportOptions.includeDeleted \/ ~exportItems.items[id].isDeleted)

\* the rows are the header and then the exported items in pre-order
RowsInPreorder ==
    /\ Len(exported.data.pieces) = Len(ExportedIds) + 1
    /\ exported.data.pieces[1]
           = "Path,Name,Type,Size,Size (Formatted),Created,Modified,Accessed"
    /\ \A k \in DOMAIN ExportedIds :
          Opens(exported.data.pieces[k + 1],
                escapeCsvValue(exportItems.items[ExportedIds[k]].path) \o ","
                \o escapeCsvValue(exportItems.items[ExportedIds[k]].name) \o ","
                \o exportItems.items[ExportedIds[k]].type \o ",")

\* the number of lines of the text
LineCount(data) == Cardinality(Positions(Text(data), "\n")) + 1

\* C19 as the specification states it: a CSV export of N items without
\* the optional columns is exactly N + 1 lines of text, the header and one
\* line for every exported item in pre-order
C19_CsvHasOneLinePerItem ==
    PlainCsv => RowsInPreorder /\ LineCount(exported.data) = Len(ExportedIds) + 1

\* C19: a CSV export of N items without the optional columns is exactly
\* N + 1 rows joined by line feeds, the header and one row for every
\* exported item in pre-order; the text is N + 1 lines long when no exported
\* path holds a line break
C19_CsvHasOneRowPerItem ==
    PlainCsv =>
        /\ RowsInPreorder
        /\ exported.data.separator = "\n"
        /\ (\A k \in DOMAIN ExportedIds :
                ~StringIncludes(exportItems.items[ExportedIds[k]].path, "\n"))
           => LineCount(exported.data) = Len(ExportedIds) + 1

\* a CSV export without deleted items that holds the file below the deleted
\* directory: the header and three rows
C19_Witness ==
    /\ PlainCsv
    /\ exportItems = BranchForest
    /\ ~exportOptions.includeDeleted
    /\ Len(exported.data.pieces) = 4
    /\ LineCount(exported.data) = 4
    /\ Opens(exported.data.pieces[4], "/docs/old/keep.txt,keep.txt,file,9000,8.79 KB,")

\* C20: a call of export with a format tag that is none of json, csv, xml
\* and html throws the unsupported-format error and hands out no artifact,
\* and it leaves the items of the engine as they were; the call that follows
\* a failed one, given a valid format, returns the artifact a new engine on
\* the same items returns for the same options at the same time
C20_UnsupportedFormatIsConfined ==
    [][/\ exportItems' = exportItems
       /\ exportOptions'.format \notin Formats =>
             /\ exported'.state = "threw"
             /\ exported'.message = "Unsupported export format: " \o exportOptions'.format
             /\ DOMAIN exported' = {"state", "message"}
       /\ (exported.state = "threw" /\ exportOptions'.format \in Formats) =>
             /\ exported'.state = "returned"
             /\ exported'.size > 0
             /\ exportItems \in ExportForests
             /\ exported' = exportOutcome(exportItems, exportOptions', clock)]_vars

\* a call with the tag 'pdf' has just failed, and another call can follow
C20_Witness ==
    /\ exported = Threw("Unsupported export format: pdf")
    /\ exportOptions.format = "pdf"
    /\ exportItems = BranchForest
    /\ clock = 2
    /\ clock < MaxClock

(***************************************************************************)
(* Properties of the analysis methods of the search engine                 *)
(***************************************************************************)
\* the file-kind items of the forest that carry an MD5
FilesWithMd5 ==
    {id \in AllItems : items.items[id].type = "file" /\ Truthy(items.items[id].md5Hash)}

\* the MD5 values that at least two file-kind items carry
SharedMd5 ==
    {items.items[id].md5Hash : id \in {a \in FilesWithMd5 :
        \E b \in FilesWithMd5 : b # a /\ items.items[b].md5Hash = items.items[a].md5Hash}}

\* C21: findDuplicateFiles returns exactly one group per MD5 value that at
\* least two file-kind items carry; a group holds every file-kind item with
\* its hash exactly once and nothing else, so that no item without an MD5,
\* no directory and no hash of a single file appears
C21_OneGroupPerSharedHash ==
    advanced.state = "returned" =>
        LET groups == advanced.duplicates
        IN  /\ {groups[k].hash : k \in DOMAIN groups} = SharedMd5
            /\ \A j, k \in DOMAIN groups : groups[j].hash = groups[k].hash => j = k
            /\ \A k \in DOMAIN groups :
                  /\ Range(groups[k].files)
                        = {id \in FilesWithMd5 : items.items[id].md5Hash = groups[k].hash}
                  /\ \A id \in Range(groups[k].files) : Count(groups[k].files, id) = 1

\* files with the hashes h, h and k below a directory that carries h too:
\* one group, holding the two files with h
C21_Witness ==
    /\ items = DuplicatesForest
    /\ advanced.state = "returned"
    /\ Len(advanced.duplicates) = 1
    /\ advanced.duplicates[1].hash = generateMockHash("md5", 2)
    /\ advanced.duplicates[1].files = <<2, 5>>
    /\ Cardinality(FilesWithMd5) = 3

(***************************************************************************)
(* Properties of the pattern search                                        *)
(***************************************************************************)
\* a pattern of characters and "." only
IsPlainPattern(query) ==
    \A i \in 1..Len(query) : CharAt(query, i) \notin {"*", "|", "(", ")"}

\* the 0-based positions of text at which a plain pattern stands, letter
\* case told apart or not
PlainPositions(text, query, caseSensitive) ==
    {i \in 0..(Len(text) - Len(query)) :
        \A k \in 1..Len(query) :
            \/ CharAt(query, k) = "." /\ CharAt(text, i + k) # "\n"
            \/ CharAt(query, k) # "."
               /\ IF caseSensitive THEN CharAt(text, i + k) = CharAt(query, k)
                  ELSE LowerChar(CharAt(text, i + k)) = LowerChar(CharAt(query, k))}

\* C22: with useRegex set and a valid pattern, letter case is told apart
\* exactly when caseSensitive is set: every match of a result stands where
\* the pattern stands under that reading of case, and every item whose name
\* holds the pattern under that reading is returned
C22_PatternCaseFollowsTheOption ==
    (searchOptions.useRegex /\ IsPlainPattern(searchOptions.query)
     /\ searchOptions.query # "" /\ searchOptions.includeDeleted
     /\ searchOptions.hashSearch = "") =>
        /\ \A k \in DOMAIN results : \A n \in DOMAIN results[k].matches :
              LET match == results[k].matches[n]
              IN  match.startIndex \in PlainPositions(match.value, searchOptions.query,
                                                      searchOptions.caseSensitive)
        /\ \A id \in AllItems :
              PlainPositions(items.items[id].name, searchOptions.query,
                             searchOptions.caseSensitive) # {}
                 => id \in ResultItems

\* C27: findTextMatches with useRegex set ends for every pattern, those that
\* can match no character included: every run of the loop body moves
\* lastIndex forward, which can happen Len(text) + 1 times at most, and the
\* matches it has pushed by then are no more than that
C27_MatchLoopAdvances ==
    [][(regex.state = "running" /\ regex'.state = "running") =>
          /\ regex'.lastIndex > regex.lastIndex
          /\ regex'.lastIndex <= Len(regex.text)
          /\ Len(regex'.matches) <= Len(regex.text) + 1]_vars

(***************************************************************************)
(* Properties of the metadata scanner and of the tree walker               *)
(***************************************************************************)
\* C23: the metadata scanner ends for every buffer: it reads at most 1000
\* entry headers, none at an offset beyond the buffer length less 128, and
\* from one header to the next the offset grows by the entry size stored at
\* offset + 4 or by 128, whichever is more, so the offsets strictly increase
C23_ScannerAdvancesAndStops ==
    /\ Len(scanned) <= 1000
    /\ \A k \in DOMAIN scanned : 0 <= scanned[k] /\ scanned[k] < buffer.len - 128
    /\ \A k \in 1..(Len(scanned) - 1) :
          /\ scanned[k + 1] = scanned[k] + Max(getUint32(buffer, scanned[k] + 4), 128)
          /\ scanned[k + 1] > scanned[k]
    /\ pc = "parseMetadataTable" =>
          parseMetadataTable(buffer, superblock, fileRecords).threw \in BOOLEAN

\* the scan has stopped at the 1000th header although the buffer has room
\* for another entry
C23_Witness ==
    /\ Len(scanned) = 1000
    /\ scanned[1] = 8192
    /\ scanned[1000] = 136064
    /\ scanned[1000] + 128 < buffer.len - 128
    /\ pc # "parseMetadataTable"

\* C24: for an internal node with key count k the walker reads min(k + 1, 50)
\* child pointers, and it visits a pointer p, one level down, exactly when
\* 0 <= p < totalBlocks, block 0 included
C24_ChildPointersInRangeAreVisited ==
    [][(pc = "traverseBTreeNode" /\ stack # <<>> /\ Head(stack).next >= 0) =>
          LET f == Head(stack)
              offset == NodeOffset(superblock, f.block)
              k == getUint16(buffer, offset + 4)
              at == offset + 16 + k * 8 + f.next * 4
              p == getUint32(buffer, at)
              count == IF k + 1 < 50 THEN k + 1 ELSE 50
              visits == /\ Len(stack') = Len(stack) + 1
                        /\ Head(stack').block = p
                        /\ Head(stack').depth = f.depth + 1
          IN  IF f.next >= count THEN Len(stack') = Len(stack) - 1
              ELSE IF at + 4 > buffer.len THEN pc' = "failed"
              ELSE (0 <= p /\ p < superblock.totalBlocks) <=> visits]_vars

\* C25: the synthesized geometry has block size 4096 and as many blocks as
\* 4096 goes into the buffer length, but never fewer than 1000
C25_SynthesizedBlockCount ==
    superblock.signature = MockSignature =>
        /\ superblock.blockSize = 4096
        /\ superblock.totalBlocks = Max(buffer.len \div 4096, 1000)

FullScan(options) ==
    {id \in AllItems : /\ Len(findMatches(items.items[id], options)) > 0
                       /\ applyFilters(items.items[id], options)}

\* C28: for a literal query the search that starts from the index returns
\* what the same matching, filtering and scoring return on the whole tree:
\* every item whose name, or path when searchInPath is set, holds the query
\* and that passes the filters, also when the query is only a part of a token
C28_IndexedSearchEqualsFullScan ==
    (searchOptions.query # "" /\ ~searchOptions.useRegex /\ searchOptions.hashSearch = "") =>
        /\ ResultItems = FullScan(searchOptions)
        /\ \A k \in DOMAIN results :
              /\ results[k].matches = findMatches(items.items[results[k].item], searchOptions)
              /\ results[k].score = calculateScore(items.items[results[k].item],
                                                   results[k].matches, searchOptions)

(***************************************************************************)
(* Properties of the CSV columns                                           *)
(***************************************************************************)
\* the number of fields of a CSV row: one more than its commas outside
\* double quotes
CsvFields(row) ==
    LET chars == [i \in 1..Len(row) |-> CharAt(row, i)] \o <<>>
        quoted(i) == Cardinality({j \in 1..i : chars[j] = "\""}) % 2 = 1
    IN  Cardinality({i \in 1..Len(row) : chars[i] = "," /\ ~quoted(i)}) + 1

\* C29: in a CSV export every data row has as many fields as the header
\* row, whatever includeMetadata and includeHashes are and whether or not
\* the item has a metadata block
C29_CsvRowsMatchHeader ==
    Exported("csv") =>
        \A k \in 2..Len(exported.data.pieces) :
            CsvFields(exported.data.pieces[k]) = CsvFields(exported.data.pieces[1])

(***************************************************************************)
(* Properties of SearchDialog                                              *)
(***************************************************************************)
\* what the dialog shows for the options once their search has completed
ResultsFor(options) ==
    IF options.query # "" \/ options.hashSearch # ""
    THEN search(items, searchIndex, options)
    ELSE <<>>

\* C30: whatever the order of option changes and of completions of the
\* delayed searches, once no search is pending the results shown are those
\* of the current searchOptions, empty when query and hashSearch are both
\* empty, so that a search started for earlier options never leaves its
\* results behind; and isSearching is false only when no search is pending
C30_ResultsFollowTheCurrentOptions ==
    /\ timers = <<>> => results = ResultsFor(searchOptions)
    /\ ~isSearching => timers = <<>>

====
